---- MODULE Spec2Model ----
(***************************************************************************)
(* StreamPulse: the data acquisition pipeline.                             *)
(*                                                                         *)
(*   feeds   fetch_with_retry and the session set DISABLED_FEEDS           *)
(*           (src/src/ui/feeds.py)                                         *)
(*   stock   fetch_stock_price, its tenacity retry decorator, the latch    *)
(*           alpha_vantage_failed and the ticker build                     *)
(*           (src/src/api/fetchers.py, src/src/ui/stock_ticker.py)         *)
(*   image   fetch_image and the on-disk image cache                       *)
(*           (src/src/api/fetchers.py)                                     *)
(*   load    load_feeds, its fetch threads, the progress signal and the    *)
(*           closing of the loading screen (src/src/ui/feeds.py,           *)
(*           src/src/ui/loading_screen.py)                                 *)
(*   rotate  the story rotation: fetch_feed_entries and show_next_story    *)
(*           over the shared feed_queue (src/src/ui/feeds.py)              *)
(*   tts     the narration worker process_tts_queue and its producers      *)
(*           (src/src/api/tts_engine.py, src/src/api/sentiment.py)         *)
(*   pool    the executor of run_in_thread (src/src/utils/threading.py)    *)
(*           next to the threads load_feeds starts itself                  *)
(*   sent    analyze_text and list_models with the set                     *)
(*           processed_story_ids (src/src/api/sentiment.py)                *)
(*   close   on_close and shutdown_executor (src/src/main.py,              *)
(*           src/src/utils/threading.py)                                   *)
(*   stat    fetch_with_retries and the two statistics fetchers            *)
(*           (src/src/ui/stats_widgets.py)                                 *)
(*   tick    the scrolling of StockTicker (src/src/ui/stock_ticker.py)     *)
(*   index   the index-based rotation of src/src/gui.py                    *)
(*   overlap analyze_text run as several coroutines                        *)
(*           (src/src/api/sentiment.py)                                    *)
(*                                                                         *)
(* Each part has its own specification (SpecFeed, SpecStock, SpecImage,    *)
(* SpecLoad, SpecRotate, SpecTts, SpecPool, SpecSent, SpecStat, SpecTick,  *)
(* SpecIndex, SpecOverlap) over its own variables; the variables of the    *)
(* other parts stay at their initial values.  SpecLoadFair, SpecTtsFair    *)
(* and SpecCloseFair (the narration worker with the close of the window)   *)
(* add the fairness the scheduling of the threads gives.                   *)
(*                                                                         *)
(* The network is the environment: the outcome of every request is an      *)
(* input drawn from the outcomes the code distinguishes.  The bodies of    *)
(* the async functions (fetch_rss_feed, fetch_stock_price, fetch_image,    *)
(* list_models, analyze_text) are modelled as they run once awaited, also  *)
(* where the caller in src/ calls them without awaiting.                   *)
(***************************************************************************)
EXTENDS Integers, Sequences, FiniteSets, TLC

VARIABLES
    \* ---- feeds
    DISABLED_FEEDS,   \* feeds.py:33, the set of disabled feed URLs
    fPc,              \* per caller: where its fetch_with_retry call stands
    fUrl,             \* per caller: feed_url of the call
    fRetries,         \* per caller: the parameter retries of the current frame
    fResult,          \* per caller: "pending", "feed" or "None"
    fAttempts,        \* per caller: fetch_rss_feed calls begun in this call
    fAdded,           \* per caller: this call executed DISABLED_FEEDS.add
    fLast,            \* per caller: the response of the last attempt that ended
    fWaits,           \* per caller: the retry waits of the current call, in seconds
    fCalls,           \* calls started so far
    \* ---- stock
    alpha_vantage_failed, \* fetchers.py:88
    API_KEY,          \* fetchers.py:85, TRUE when the environment sets a key
    sPc,              \* where the ticker build / current call stands
    sIdx,             \* index in STOCKS of the symbol being fetched
    sAttempt,         \* tenacity attempt number of the current call
    sPrimary,         \* primary requests issued by the current call
    sPrimaryFailed,   \* a primary request of the current call failed
    sYahoo,           \* symbols the current call asked the secondary for
    sWaits,           \* tenacity waits slept by the current call
    sSymbol,          \* the symbol of the current call
    sFailedEver,      \* some primary request of the run has failed
    sFailedBefore,    \* sFailedEver as it was when the current call started
    stock_data,       \* the dict the ticker build is filling, as a sequence
    sFetched,         \* symbols for which fetch_stock_price was called
    sBuilds,          \* ticker builds started so far
    \* ---- image
    cache,            \* per cache key: the file at cache_image_path
    iPc,              \* per caller: where its fetch_image call stands
    iArgs,            \* per caller: url, width, height of the call
    iResp,            \* per caller: the response being processed
    iResult,          \* per caller: what the call returned
    iNet,             \* per caller: network requests issued by this call
    iHitAtStart,      \* per caller: an entry had been stored when it started
    iAfterFail,       \* per caller: a call for its URL had failed when it started
    iFailedUrls,      \* URLs for which some call has failed
    default_ok,       \* DEFAULT_IMAGE_PATH can be opened
    iCalls,           \* calls started so far
    \* ---- load
    loaded_feeds,     \* feeds.py:121, loaded_feeds[0]
    tPc,              \* per fetch thread: where fetch_and_store_feed stands
    tFeed,            \* per fetch thread: what fetch_with_retry returned
    tTmp,             \* per fetch thread: value read by loaded_feeds[0] += 1
    tProgress,        \* per fetch thread: the local progress
    loaded_data,      \* feeds.py:122, per category the feeds appended
    lPc,              \* the worker running load_data_and_complete
    lJoin,            \* index of the thread being joined
    feed_loaded,      \* loading_screen.py:144
    stock_loaded,     \* loading_screen.py:145
    kPc,              \* the stock data thread
    signalQ,          \* progress_signal emissions not yet delivered
    delivered,        \* progress values update_progress has received
    rss_feeds,        \* loading_screen.py:137, what load_feed_config returned
    filterSize,       \* size of loaded_data when the filter began to iterate
    valid_categories, \* feeds.py:170, the categories load_feeds returns
    results,          \* loading_screen.py:143
    feeds_data,       \* loading_screen.py:39, self.feeds_data
    screen_stock_data,\* loading_screen.py:40, self.stock_data
    fade,             \* the fade-out animation and close_loading_screen
    completed,        \* the results on_complete was called with
    \* ---- rotation
    feed_queue,       \* feeds.py:29, the global queue of (category, entries)
    content_frame,    \* per category: what its content_frame shows
    rRefreshes,       \* refresh timer callbacks run so far
    guiThread,        \* "idle", or the category whose fetch the GUI thread runs
    poolFetch,        \* categories whose fetch a thread of the executor runs
    \* ---- tts
    tts_queue,        \* tts_engine.py:35, texts waiting for the worker
    tts_busy,         \* tts_engine.py:38
    ttsPc,            \* where process_tts_queue stands
    ttsElapsed,       \* polls of the busy flag since start_time
    engineQ,          \* texts given to engine.say and not yet spoken
    narrating,        \* texts the engine is speaking
    ttsStuck,         \* narrations in progress that never end on their own
    ttsFinished,      \* texts whose narration has ended
    aPc,              \* per analyze_text call: where it stands
    aText,            \* per analyze_text call: the text it narrates
    ttsCalls,         \* texts produced so far
    aPut,             \* per analyze_text call: it has put its text on tts_queue
    ttsSaid,          \* the texts the worker has given to engine.say, in order
    ttsEnq,           \* everything put on tts_queue so far, in order
    engine,           \* tts_engine.py:27-32, "ok" or "None" (pyttsx3.init failed)
    \* ---- worker pool
    poolRunning,      \* tasks a worker of the executor is running
    poolWaiting,      \* tasks submitted and waiting for a worker
    poolSubmits,      \* tasks submitted so far
    \* ---- sentiment
    processed_story_ids, \* sentiment.py:39
    nPc,              \* where the analyze_text call of the current tick stands
    nStory,           \* story_id of the call
    nModel,           \* the parameter model of the call
    available_models, \* what list_models returned to the call
    nResponse,        \* how the last backend request of the call ended
    nUsed,            \* the model named in the generate request of the call
    nResult,          \* what the last call returned, or "raised"
    label,            \* what update_ui last wrote to the sentiment label
    tag,              \* per story: the sentiment it was last displayed with
    nReqs,            \* per story: analyze_text calls that went to the backend
    nFailed,          \* stories whose sentiment call has failed
    nSpoken,          \* what the call has handed to add_to_tts_queue
    nCalls,           \* analyze_text calls so far
    \* ---- close
    closing,          \* "open", "shutdown" while on_close waits in shutdown_executor, "closed"
    \* ---- stats
    gPc,              \* where the call of fetch_us_debt / fetch_global_co2_emissions stands
    gWhich,           \* which of the two is running
    gAttempt,          \* stats_widgets.py:53, the loop variable of fetch_with_retries
    gRequests,        \* requests.get calls of the call
    gSleeps,          \* time.sleep(delay) calls of the call
    gLast,            \* how the last request of the call ended
    gResult,          \* per function: what its last call returned, or "raised"
    gCalls,           \* calls so far
    \* ---- ticker
    ticker_text,      \* stock_ticker.py:41, as a sequence of characters
    scroll_position,  \* stock_ticker.py:42
    display_text,     \* the text of stock_label
    tWidth,           \* self.width(), in units of one character
    tSteps,           \* scroll steps since set_ticker_text
    tOrig,            \* ticker_text as set_ticker_text left it
    tFirst,           \* ticker_text after the first scroll step since set_ticker_text
    \* ---- index-based rotation
    feedEntries,      \* gui.py:23, feed_entries of update_feed
    current_story_index, \* gui.py:22
    tickAfter,        \* "scheduled" while root.after holds the next tick, "failed" once a tick raised
    xRefreshes,       \* runs of fetch_feed_entries so far
    \* ---- overlapping calls of analyze_text
    oPc,              \* per call: the await at which it stands
    oStory,           \* per call: its story_id
    oRequests,        \* per story: generate requests sent
    oLate,            \* per story: generate requests sent with the story already processed
    oSucceeded,       \* per story: calls that got an analysis result
    oNarrated,        \* per story: results put on the narration queue
    oCalls            \* calls so far

feedVars  == <<DISABLED_FEEDS, fPc, fUrl, fRetries, fResult, fAttempts, fAdded, fLast,
               fWaits, fCalls>>
stockVars == <<alpha_vantage_failed, API_KEY, sPc, sIdx, sAttempt, sPrimary,
               sPrimaryFailed, sYahoo, sWaits, sSymbol, sFailedEver,
               sFailedBefore, stock_data, sFetched, sBuilds>>
imageVars == <<cache, iPc, iArgs, iResp, iResult, iNet, iHitAtStart, iAfterFail,
               iFailedUrls, default_ok, iCalls>>
loadVars  == <<loaded_feeds, tPc, tFeed, tTmp, tProgress, loaded_data, lPc, lJoin,
               feed_loaded, stock_loaded, kPc, signalQ, delivered>>
screenVars == <<filterSize, valid_categories, results, feeds_data, screen_stock_data,
                fade, completed>>
rotVars   == <<feed_queue, content_frame, rRefreshes, guiThread, poolFetch>>
ttsVars   == <<tts_queue, tts_busy, ttsPc, ttsElapsed, engineQ, narrating, ttsStuck,
               ttsFinished, aPc, aText, ttsCalls, aPut, ttsSaid, ttsEnq, engine>>
poolVars  == <<poolRunning, poolWaiting, poolSubmits>>
sentVars  == <<processed_story_ids, nPc, nStory, nModel, available_models, nResponse,
               nUsed, nResult, label, tag, nReqs, nFailed, nSpoken, nCalls>>
closeVars == <<closing>>
statVars  == <<gPc, gWhich, gAttempt, gRequests, gSleeps, gLast, gResult, gCalls>>
tickVars  == <<ticker_text, scroll_position, display_text, tWidth, tSteps, tOrig, tFirst>>
idxVars   == <<feedEntries, current_story_index, tickAfter, xRefreshes>>
ovVars    == <<oPc, oStory, oRequests, oLate, oSucceeded, oNarrated, oCalls>>
otherVars == <<closeVars, statVars, tickVars, idxVars, ovVars>>
uiVars    == <<rotVars, ttsVars, poolVars, sentVars, otherVars>>
vars == <<feedVars, stockVars, imageVars, rss_feeds, loadVars, screenVars, uiVars>>
\* the variables of the parts up to the sentiment part
coreVars  == <<feedVars, stockVars, imageVars, rss_feeds, loadVars, screenVars,
               rotVars, ttsVars, poolVars, sentVars>>
\* the same without processed_story_ids, which overlapping calls of
\* analyze_text share
sharingVars == <<feedVars, stockVars, imageVars, rss_feeds, loadVars, screenVars,
                 rotVars, ttsVars, poolVars, nPc, nStory, nModel, available_models,
                 nResponse, nUsed, nResult, label, tag, nReqs, nFailed, nSpoken, nCalls,
                 closeVars, statVars, tickVars, idxVars>>

(***************************************************************************)
(* Bounds of the model.                                                    *)
(***************************************************************************)
MaxFeedCalls == 3     \* fetch_with_retry calls started in one run
MaxBuilds == 2        \* ticker builds in one run
MaxImageCalls == 3    \* fetch_image calls started in one run
MaxRefreshes == 3     \* refresh timer callbacks in one run
MaxTexts == 3         \* texts produced for narration in one run
MaxSubmits == 7       \* tasks submitted to the executor in one run
MaxSentCalls == 3     \* analyze_text calls in one run
MaxStatCalls == 3     \* calls of the two statistics fetchers in one run
MaxScrolls == 24      \* scroll steps counted after one set_ticker_text
MaxIndexRefreshes == 3 \* runs of fetch_feed_entries of the index-based rotation in one run
MaxOverlapCalls == 3  \* analyze_text calls of the overlapping callers in one run

(***************************************************************************)
(*                               FEEDS                                     *)
(***************************************************************************)
RETRY_LIMIT == 3
RETRY_BACKOFF == 2

FeedUrls == {"u1", "u2"}
\* the startup loader thread of a feed and the refresh of its category
FeedCallers == {"loader", "refresh"}
\* how fetch_with_retry takes one fetch_rss_feed call: a feed with entries,
\* no entries, or an exception
FeedOutcomes == {"entries", "empty", "raise"}

\* what the server gives one fetch_rss_feed call (fetchers.py:116-170):
\*   feed          a 2xx response that parses to a feed with entries
\*   no_entries    a 2xx response without entries (or a bozo feed, or an
\*                 unexpected content type) in which the scraping finds no link
\*   scraped_links the same, the scraping finds links
\*   non_2xx       a 3xx, 4xx (404 included) or 5xx status
\*   dns_error     aiohttp.ClientConnectorError
\*   client_error  another aiohttp.ClientError, on every tenacity attempt
Responses == {"feed", "no_entries", "scraped_links", "non_2xx", "dns_error",
              "client_error"}

\* fetchers.py:105-191, what fetch_rss_feed returns: the FeedParserDict, a
\* plain dict {'entries': [...]} with or without entries, or the NetworkError
\* that the decorator re-raises after its third attempt
fetch_rss_feed(r) ==
    CASE r = "feed" -> "FeedParserDict"
      [] r = "scraped_links" -> "dict_with_entries"
      [] r \in {"no_entries", "non_2xx", "dns_error"} -> "dict_without_entries"
      [] r = "client_error" -> "NetworkError"

\* the attempt with a response without entries taken for a fetched feed
AttemptOutcome_EmptyIsSuccess(value) ==
    IF value \in {"FeedParserDict", "dict_without_entries"} THEN "entries"
    ELSE IF value = "NetworkError" THEN "raise" ELSE "empty"

\* feeds.py:83-88, `if feed and feed.entries`: a FeedParserDict gives its
\* entries; a plain dict is true (it has the key 'entries') and has no
\* attribute entries, so the test raises AttributeError, which the except
\* block of line 90 catches like the ValueError of line 88
AttemptOutcome(value) ==
    IF value = "FeedParserDict" THEN "entries"
    ELSE IF value = "NetworkError" THEN "raise" ELSE "empty"

FeedInit ==
    /\ DISABLED_FEEDS = {}
    /\ fPc = [c \in FeedCallers |-> "idle"]
    /\ fUrl = [c \in FeedCallers |-> "u1"]
    /\ fRetries = [c \in FeedCallers |-> 0]
    /\ fResult = [c \in FeedCallers |-> "pending"]
    /\ fAttempts = [c \in FeedCallers |-> 0]
    /\ fAdded = [c \in FeedCallers |-> FALSE]
    /\ fLast = [c \in FeedCallers |-> "none"]
    /\ fWaits = [c \in FeedCallers |-> <<>>]
    /\ fCalls = 0

\* fetch_with_retry(feed_url) is called with retries = 0
FeedCall(c, u) ==
    /\ fPc[c] = "idle"
    /\ fCalls < MaxFeedCalls
    /\ fCalls' = fCalls + 1
    /\ fPc' = [fPc EXCEPT ![c] = "check"]
    /\ fUrl' = [fUrl EXCEPT ![c] = u]
    /\ fRetries' = [fRetries EXCEPT ![c] = 0]
    /\ fResult' = [fResult EXCEPT ![c] = "pending"]
    /\ fAttempts' = [fAttempts EXCEPT ![c] = 0]
    /\ fAdded' = [fAdded EXCEPT ![c] = FALSE]
    /\ fLast' = [fLast EXCEPT ![c] = "none"]
    /\ fWaits' = [fWaits EXCEPT ![c] = <<>>]
    /\ UNCHANGED DISABLED_FEEDS
    /\ UNCHANGED <<stockVars, imageVars, rss_feeds, loadVars, screenVars, uiVars>>

\* feeds.py:79-81, the test of DISABLED_FEEDS at the head of every frame
FeedCheckDisabled(c) ==
    /\ fPc[c] = "check"
    /\ IF fUrl[c] \in DISABLED_FEEDS
       THEN /\ fPc' = [fPc EXCEPT ![c] = "done"]
            /\ fResult' = [fResult EXCEPT ![c] = "None"]
       ELSE /\ fPc' = [fPc EXCEPT ![c] = "fetch"]
            /\ UNCHANGED fResult
    /\ UNCHANGED <<DISABLED_FEEDS, fUrl, fRetries, fAttempts, fAdded, fLast, fWaits,
                   fCalls>>
    /\ UNCHANGED <<stockVars, imageVars, rss_feeds, loadVars, screenVars, uiVars>>

\* feeds.py:83, fetch_rss_feed(feed_url) begins
FeedFetchBegin(c) ==
    /\ fPc[c] = "fetch"
    /\ fPc' = [fPc EXCEPT ![c] = "fetching"]
    /\ fAttempts' = [fAttempts EXCEPT ![c] = @ + 1]
    /\ UNCHANGED <<DISABLED_FEEDS, fUrl, fRetries, fResult, fAdded, fLast, fWaits,
                   fCalls>>
    /\ UNCHANGED <<stockVars, imageVars, rss_feeds, loadVars, screenVars, uiVars>>

\* the except block with the comparison off by one
RetryAllowed_OffByOne(retries) == retries + 1 < RETRY_LIMIT

\* feeds.py:94, the decision of the except block
RetryAllowed(retries) == retries < RETRY_LIMIT

\* feeds.py:83-102, the attempt ends with response r: success returns the
\* feed, everything else lands in the except block, which retries or
\* disables the feed
FeedFetchEnd(c, r) ==
    /\ fPc[c] = "fetching"
    /\ fLast' = [fLast EXCEPT ![c] = r]
    /\ IF AttemptOutcome(fetch_rss_feed(r)) = "entries"
       THEN /\ fPc' = [fPc EXCEPT ![c] = "done"]
            /\ fResult' = [fResult EXCEPT ![c] = "feed"]
            /\ UNCHANGED <<DISABLED_FEEDS, fAdded>>
       ELSE IF RetryAllowed(fRetries[c])
            THEN /\ fPc' = [fPc EXCEPT ![c] = "sleep"]
                 /\ UNCHANGED <<DISABLED_FEEDS, fResult, fAdded>>
            ELSE /\ DISABLED_FEEDS' = DISABLED_FEEDS \cup {fUrl[c]}
                 /\ fAdded' = [fAdded EXCEPT ![c] = TRUE]
                 /\ fResult' = [fResult EXCEPT ![c] = "None"]
                 /\ fPc' = [fPc EXCEPT ![c] = "done"]
    /\ UNCHANGED <<fUrl, fRetries, fAttempts, fWaits, fCalls>>
    /\ UNCHANGED <<stockVars, imageVars, rss_feeds, loadVars, screenVars, uiVars>>

\* the delay growing by addition instead of by powers
retry_delay_Linear(retries) == RETRY_BACKOFF * retries

\* feeds.py:95, retry_delay = RETRY_BACKOFF ** retries
retry_delay(retries) == RETRY_BACKOFF ^ retries

\* feeds.py:95-98, time.sleep(retry_delay), then the recursive call
\* fetch_with_retry(feed_url, retries + 1)
FeedRetry(c) ==
    /\ fPc[c] = "sleep"
    /\ fWaits' = [fWaits EXCEPT ![c] = Append(@, retry_delay(fRetries[c]))]
    /\ fRetries' = [fRetries EXCEPT ![c] = @ + 1]
    /\ fPc' = [fPc EXCEPT ![c] = "check"]
    /\ UNCHANGED <<DISABLED_FEEDS, fUrl, fResult, fAttempts, fAdded, fLast, fCalls>>
    /\ UNCHANGED <<stockVars, imageVars, rss_feeds, loadVars, screenVars, uiVars>>

\* the call has returned; its caller may call again (the refresh timer)
FeedReturn(c) ==
    /\ fPc[c] = "done"
    /\ fPc' = [fPc EXCEPT ![c] = "idle"]
    /\ UNCHANGED <<DISABLED_FEEDS, fUrl, fRetries, fResult, fAttempts, fAdded,
                   fLast, fWaits, fCalls>>
    /\ UNCHANGED <<stockVars, imageVars, rss_feeds, loadVars, screenVars, uiVars>>

(***************************************************************************)
(*                               STOCK                                     *)
(***************************************************************************)
\* fetchers.py:54, the head of the list
STOCKS == <<"AAPL", "GOOGL", "MSFT">>
\* fetchers.py:273, stop_after_attempt(5)
STOP_AFTER_ATTEMPT == 5

\* what the Alpha Vantage request of one attempt gives: a response with the
\* price field, a response without it, an aiohttp.ClientError, or an
\* exception that is no ClientError (asyncio.TimeoutError of the request
\* timeout, a JSON decoding error)
PrimaryOutcomes == {"price", "no_price", "client_error", "other_error"}
\* what yfinance gives: a history with a close, an empty history, an exception
YahooOutcomes == {"price", "empty", "raise"}

StockInit ==
    /\ alpha_vantage_failed = FALSE
    /\ API_KEY \in BOOLEAN
    /\ sPc = "idle"
    /\ sIdx = 0
    /\ sAttempt = 0
    /\ sPrimary = 0
    /\ sPrimaryFailed = FALSE
    /\ sYahoo = {}
    /\ sWaits = 0
    /\ sSymbol = "none"
    /\ sFailedEver = FALSE
    /\ sFailedBefore = FALSE
    /\ stock_data = <<>>
    /\ sFetched = <<>>
    /\ sBuilds = 0

\* stock_ticker.py:56-60, update_ticker_text starts the comprehension over
\* STOCKS
TickerBuildStart ==
    /\ sPc \in {"idle", "built", "raised"}
    /\ sBuilds < MaxBuilds
    /\ sBuilds' = sBuilds + 1
    /\ stock_data' = <<>>
    /\ sFetched' = <<>>
    /\ sIdx' = 1
    /\ sPc' = "call"
    /\ UNCHANGED <<alpha_vantage_failed, API_KEY, sAttempt, sPrimary, sPrimaryFailed,
                   sYahoo, sWaits, sSymbol, sFailedEver, sFailedBefore>>
    /\ UNCHANGED <<feedVars, imageVars, rss_feeds, loadVars, screenVars, uiVars>>

\* stock_ticker.py:60, fetch_stock_price(symbol) is called for the next symbol
StockCall ==
    /\ sPc = "call"
    /\ sSymbol' = STOCKS[sIdx]
    /\ sFetched' = Append(sFetched, STOCKS[sIdx])
    /\ sAttempt' = 1
    /\ sPrimary' = 0
    /\ sPrimaryFailed' = FALSE
    /\ sYahoo' = {}
    /\ sWaits' = 0
    /\ sFailedBefore' = sFailedEver
    /\ sPc' = "attempt"
    /\ UNCHANGED <<alpha_vantage_failed, API_KEY, sIdx, sFailedEver, stock_data, sBuilds>>
    /\ UNCHANGED <<feedVars, imageVars, rss_feeds, loadVars, screenVars, uiVars>>

\* fetchers.py:281, the latch and the key decide where the attempt goes
GoesToSecondary == alpha_vantage_failed \/ ~API_KEY

StockAttempt ==
    /\ sPc = "attempt"
    /\ sPc' = IF GoesToSecondary THEN "yahoo" ELSE "primary"
    /\ UNCHANGED <<alpha_vantage_failed, API_KEY, sIdx, sAttempt, sPrimary, sPrimaryFailed,
                   sYahoo, sWaits, sSymbol, sFailedEver, sFailedBefore, stock_data,
                   sFetched, sBuilds>>
    /\ UNCHANGED <<feedVars, imageVars, rss_feeds, loadVars, screenVars, uiVars>>

\* the call returns value v: the comprehension stores it and goes on to the
\* next symbol, or the dict is complete and set_ticker_text runs
StockReturned(v) ==
    /\ stock_data' = Append(stock_data, [symbol |-> sSymbol, value |-> v])
    /\ IF sIdx < Len(STOCKS)
       THEN sIdx' = sIdx + 1 /\ sPc' = "call"
       ELSE sIdx' = sIdx /\ sPc' = "built"

\* fetchers.py:299-302, the exceptions the function catches itself
CaughtByFetch(o) == o = "client_error"

\* fetchers.py:273, the decorator: another attempt while fewer than
\* STOP_AFTER_ATTEMPT were made, else the exception is raised to the caller
TenacityRetries(attempt) == attempt < STOP_AFTER_ATTEMPT

\* fetchers.py:284-302, the Alpha Vantage request of one attempt
StockPrimary(o) ==
    /\ sPc = "primary"
    /\ sPrimary' = sPrimary + 1
    /\ IF o = "price"
       THEN /\ StockReturned("av_price")
            /\ UNCHANGED <<alpha_vantage_failed, sPrimaryFailed, sFailedEver>>
       ELSE /\ sPrimaryFailed' = TRUE
            /\ sFailedEver' = TRUE
            /\ UNCHANGED <<stock_data, sIdx>>
            /\ IF o = "no_price" \/ CaughtByFetch(o)
               THEN /\ alpha_vantage_failed' = TRUE
                    /\ sPc' = "yahoo"
               ELSE /\ UNCHANGED alpha_vantage_failed
                    /\ sPc' = IF TenacityRetries(sAttempt) THEN "wait" ELSE "raised"
    /\ UNCHANGED <<API_KEY, sAttempt, sYahoo, sWaits, sSymbol, sFailedBefore,
                   sFetched, sBuilds>>
    /\ UNCHANGED <<feedVars, imageVars, rss_feeds, loadVars, screenVars, uiVars>>

\* fetchers.py:304-322, fetch_from_yahoo_finance: a formatted price, or an
\* error dict for an empty history and for every exception
fetch_from_yahoo_finance(o) == IF o = "price" THEN "yf_price" ELSE "error"

StockYahoo(o) ==
    /\ sPc = "yahoo"
    /\ sYahoo' = sYahoo \cup {sSymbol}
    /\ StockReturned(fetch_from_yahoo_finance(o))
    /\ UNCHANGED <<alpha_vantage_failed, API_KEY, sAttempt, sPrimary, sPrimaryFailed,
                   sWaits, sSymbol, sFailedEver, sFailedBefore, sFetched, sBuilds>>
    /\ UNCHANGED <<feedVars, imageVars, rss_feeds, loadVars, screenVars, uiVars>>

\* fetchers.py:273, wait_exponential(min=4, max=10) between two attempts
StockWait ==
    /\ sPc = "wait"
    /\ sWaits' = sWaits + 1
    /\ sAttempt' = sAttempt + 1
    /\ sPc' = "attempt"
    /\ UNCHANGED <<alpha_vantage_failed, API_KEY, sIdx, sPrimary, sPrimaryFailed, sYahoo,
                   sSymbol, sFailedEver, sFailedBefore, stock_data, sFetched, sBuilds>>
    /\ UNCHANGED <<feedVars, imageVars, rss_feeds, loadVars, screenVars, uiVars>>

(***************************************************************************)
(*                               IMAGE                                     *)
(***************************************************************************)
ImageUrls == {"a", "b"}
\* the sizes the callers ask for (story_display.py:105, src/gui.py:90)
ImageDims == {<<380, 180>>, <<400, 200>>}
\* run_in_thread(load_image): calls run in the workers of the thread pool
ImageCallers == {"w1", "w2"}

\* fetchers.py:193-201: the path is the md5 of the URL alone; distinct URLs
\* of the model have distinct digests.  CACHE_DIR is taken to exist
cache_image_path(url) == CASE url = "a" -> "0cc175b9.png"
                           [] url = "b" -> "92eb5ffe.png"
CacheKeys == {cache_image_path(u) : u \in ImageUrls}

\* a file of the cache directory: st is "absent", "partial" (opened for
\* writing, not yet closed), "complete" or "corrupt"
NoFile == [st |-> "absent", dims |-> <<0, 0>>, oversize |-> FALSE,
           writers |-> {}, clash |-> FALSE, stored |-> FALSE]

\* the responses session.get can give fetch_image
ImageResponses ==
    [net : {"ok", "error"}, ctype : {"image", "other"},
     length : {"declared_small", "declared_large", "undeclared_small", "undeclared_large"},
     valid : BOOLEAN]

Pending == [kind |-> "pending", content |-> "none", dims |-> <<0, 0>>]

ImageInit ==
    /\ cache = [k \in CacheKeys |-> NoFile]
    /\ iPc = [c \in ImageCallers |-> "idle"]
    /\ iArgs = [c \in ImageCallers |-> [url |-> "a", dims |-> <<380, 180>>]]
    /\ iResp = [c \in ImageCallers |-> "none"]
    /\ iResult = [c \in ImageCallers |-> Pending]
    /\ iNet = [c \in ImageCallers |-> 0]
    /\ iHitAtStart = [c \in ImageCallers |-> FALSE]
    /\ iAfterFail = [c \in ImageCallers |-> FALSE]
    /\ iFailedUrls = {}
    /\ default_ok \in BOOLEAN
    /\ iCalls = 0

\* fetch_image(url, width, height) is called
ImageCall(c, u, d) ==
    /\ iPc[c] = "idle"
    /\ iCalls < MaxImageCalls
    /\ iCalls' = iCalls + 1
    /\ iPc' = [iPc EXCEPT ![c] = "check"]
    /\ iArgs' = [iArgs EXCEPT ![c] = [url |-> u, dims |-> d]]
    /\ iResp' = [iResp EXCEPT ![c] = "none"]
    /\ iResult' = [iResult EXCEPT ![c] = Pending]
    /\ iNet' = [iNet EXCEPT ![c] = 0]
    /\ iHitAtStart' = [iHitAtStart EXCEPT ![c] = cache[cache_image_path(u)].stored]
    /\ iAfterFail' = [iAfterFail EXCEPT ![c] = u \in iFailedUrls]
    /\ UNCHANGED <<cache, iFailedUrls, default_ok>>
    /\ UNCHANGED <<feedVars, stockVars, rss_feeds, loadVars, screenVars, uiVars>>

\* fetchers.py:211, os.path.exists(cached_path)
Exists(k) == cache[k].st # "absent"

\* fetchers.py:208-213: an existing file is loaded and returned as it is
ImageCheckCache(c) ==
    LET k == cache_image_path(iArgs[c].url) IN
    /\ iPc[c] = "check"
    /\ IF Exists(k)
       THEN /\ iResult' = [iResult EXCEPT ![c] =
                    [kind |-> "cached", content |-> cache[k].st, dims |-> cache[k].dims]]
            /\ iPc' = [iPc EXCEPT ![c] = "done"]
       ELSE /\ iPc' = [iPc EXCEPT ![c] = "get"]
            /\ UNCHANGED iResult
    /\ UNCHANGED <<cache, iArgs, iResp, iNet, iHitAtStart, iAfterFail, iFailedUrls,
                   default_ok, iCalls>>
    /\ UNCHANGED <<feedVars, stockVars, rss_feeds, loadVars, screenVars, uiVars>>

\* fetchers.py:218-229: the checks a response passes before it is resized
\* and saved: an image content type, no declared length above max_file_size,
\* a body that decodes and verifies
Accepted(r) ==
    /\ r.net = "ok"
    /\ r.ctype = "image"
    /\ r.length # "declared_large"
    /\ r.valid

\* load_default_image without its try/except: the exception of a default
\* image that cannot be opened leaves fetch_image
load_default_image_NoCatch(d) ==
    IF default_ok THEN [kind |-> "default", content |-> "complete", dims |-> d]
    ELSE [kind |-> "raised", content |-> "none", dims |-> <<0, 0>>]

\* fetchers.py:249-264: the default image, or None when it cannot be loaded
load_default_image(d) ==
    IF default_ok THEN [kind |-> "default", content |-> "complete", dims |-> d]
    ELSE [kind |-> "None", content |-> "none", dims |-> <<0, 0>>]

\* fetchers.py:215-232 and 245-247: the request, the checks, the read and
\* the decoding; every failure returns load_default_image
ImageGet(c, r) ==
    /\ iPc[c] = "get"
    /\ iNet' = [iNet EXCEPT ![c] = @ + 1]
    /\ IF Accepted(r)
       THEN /\ iPc' = [iPc EXCEPT ![c] = "save"]
            /\ iResp' = [iResp EXCEPT ![c] =
                    IF r.length = "undeclared_large" THEN "large" ELSE "small"]
            /\ UNCHANGED <<iResult, iFailedUrls>>
       ELSE /\ iPc' = [iPc EXCEPT ![c] = "done"]
            /\ iResult' = [iResult EXCEPT ![c] = load_default_image(iArgs[c].dims)]
            /\ iFailedUrls' = iFailedUrls \cup {iArgs[c].url}
            /\ UNCHANGED iResp
    /\ UNCHANGED <<cache, iArgs, iHitAtStart, iAfterFail, default_ok, iCalls>>
    /\ UNCHANGED <<feedVars, stockVars, rss_feeds, loadVars, screenVars, uiVars>>

\* fetchers.py:240, image.save(cached_path) opens the final path for
\* writing: the file exists from here on, truncated
ImageSaveBegin(c) ==
    LET k == cache_image_path(iArgs[c].url) IN
    /\ iPc[c] = "save"
    /\ cache' = [cache EXCEPT ![k] =
            [st |-> "partial", dims |-> iArgs[c].dims, oversize |-> iResp[c] = "large",
             writers |-> cache[k].writers \cup {c},
             clash |-> cache[k].writers # {},
             stored |-> cache[k].stored]]
    /\ iPc' = [iPc EXCEPT ![c] = "saving"]
    /\ UNCHANGED <<iArgs, iResp, iResult, iNet, iHitAtStart, iAfterFail, iFailedUrls,
                   default_ok, iCalls>>
    /\ UNCHANGED <<feedVars, stockVars, rss_feeds, loadVars, screenVars, uiVars>>

\* fetchers.py:240-243: the save ends and QPixmap(cached_path) loads what is
\* on disk.  While another writer has the file open it is still partial;
\* two writers that overlapped wrote through separate descriptors into the
\* same file, which leaves either writer's image or a mix of both
ImageSaveEnd(c, mixed) ==
    LET k == cache_image_path(iArgs[c].url)
        others == cache[k].writers \ {c}
        st == IF others # {} THEN "partial"
              ELSE IF cache[k].clash /\ mixed THEN "corrupt" ELSE "complete"
    IN
    /\ iPc[c] = "saving"
    /\ mixed => cache[k].clash
    /\ cache' = [cache EXCEPT ![k].st = st, ![k].writers = others, ![k].stored = TRUE]
    /\ iResult' = [iResult EXCEPT ![c] =
            [kind |-> "fetched", content |-> st, dims |-> cache[k].dims]]
    /\ iPc' = [iPc EXCEPT ![c] = "done"]
    /\ UNCHANGED <<iArgs, iResp, iNet, iHitAtStart, iAfterFail, iFailedUrls,
                   default_ok, iCalls>>
    /\ UNCHANGED <<feedVars, stockVars, rss_feeds, loadVars, screenVars, uiVars>>

\* the call has returned; the worker may run another load_image task
ImageReturn(c) ==
    /\ iPc[c] = "done"
    /\ iPc' = [iPc EXCEPT ![c] = "idle"]
    /\ UNCHANGED <<cache, iArgs, iResp, iResult, iNet, iHitAtStart, iAfterFail,
                   iFailedUrls, default_ok, iCalls>>
    /\ UNCHANGED <<feedVars, stockVars, rss_feeds, loadVars, screenVars, uiVars>>

(***************************************************************************)
(*                               LOAD                                      *)
(***************************************************************************)
\* what load_feed_config may return as rss_feeds: nothing (no readable
\* configuration, or an empty one), two feeds of one category, or two feeds
\* of two categories; the feeds are in the order load_feeds starts (and
\* joins) their threads
LoadConfigs == {<<>>,
                <<[url |-> "f1", category |-> "general"],
                  [url |-> "f2", category |-> "general"]>>,
                <<[url |-> "f1", category |-> "general"],
                  [url |-> "f3", category |-> "tech"]>>}
\* feeds.py:155-161, one thread per feed
Threads == DOMAIN rss_feeds
\* utils/threading.py:23
max_workers == 5
\* a configuration with one feed more than the executor has workers
PoolConfig == [i \in 1..(max_workers + 1) |-> [url |-> "f1", category |-> "general"]]
ThreadIds == UNION {DOMAIN config : config \in LoadConfigs \cup {PoolConfig}}
Categories == {"general", "tech"}
\* feeds.py:120
total_feeds == Len(rss_feeds)

\* feeds.py:144, (loaded_feeds[0] / total_feeds) * 100.  The model keeps the
\* integer part, which is what the message shows; for 0 <= k <= total_feeds
\* it orders the values as the quotient does and is 100 exactly for
\* k = total_feeds
Progress(k) == (k * 100) \div total_feeds

NotLoaded == [present |-> FALSE, feeds |-> <<>>]

LoadInit ==
    /\ rss_feeds \in LoadConfigs \cup {PoolConfig}
    /\ loaded_feeds = 0
    /\ tPc = [t \in Threads |-> "new"]
    /\ tFeed = [t \in Threads |-> "None"]
    /\ tTmp = [t \in Threads |-> 0]
    /\ tProgress = [t \in Threads |-> 0]
    /\ loaded_data = [c \in Categories |-> NotLoaded]
    /\ lPc = "init"
    /\ lJoin = 0
    /\ feed_loaded = FALSE
    /\ stock_loaded = FALSE
    /\ kPc = "new"
    /\ signalQ = <<>>
    /\ delivered = <<>>
    /\ filterSize = 0
    /\ valid_categories = {}
    /\ results = [rss_feeds |-> "None", stock_data |-> "None"]
    /\ feeds_data = "None"
    /\ screen_stock_data = "None"
    /\ fade = "none"
    /\ completed = <<>>

\* loading_screen.py:137-140 and 210-239, load_feed_config returned an empty
\* dict: load_data_and_complete returns None.  The done callback of the
\* worker future, on_data_loaded, then finds future.result() to be None,
\* data["rss_feeds"] fails and its except clause logs the error: nothing of
\* the screen changes
LoaderNoConfig ==
    /\ lPc = "init"
    /\ rss_feeds = <<>>
    /\ lPc' = "returned"
    /\ UNCHANGED <<loaded_feeds, tPc, tFeed, tTmp, tProgress, loaded_data, lJoin,
                   feed_loaded, stock_loaded, kPc, signalQ, delivered>>
    /\ UNCHANGED <<feedVars, stockVars, imageVars, uiVars, rss_feeds>>
    /\ UNCHANGED screenVars

\* feeds.py:155-161, one thread per feed is created and started
LoaderStartThreads ==
    /\ lPc = "init"
    /\ rss_feeds # <<>>
    /\ tPc' = [t \in Threads |-> "fetch"]
    /\ lPc' = "join"
    /\ lJoin' = 1
    /\ UNCHANGED <<loaded_feeds, tFeed, tTmp, tProgress, loaded_data, feed_loaded,
                   stock_loaded, kPc, signalQ, delivered>>
    /\ UNCHANGED <<feedVars, stockVars, imageVars, uiVars, rss_feeds>>
    /\ UNCHANGED screenVars

\* feeds.py:152, fetch_with_retry returns the feed or None
ThreadFetch(t, feed) ==
    /\ t \in Threads
    /\ tPc[t] = "fetch"
    /\ tFeed' = [tFeed EXCEPT ![t] = feed]
    /\ tPc' = [tPc EXCEPT ![t] = "chk"]
    /\ UNCHANGED <<loaded_feeds, tTmp, tProgress, loaded_data, lPc, lJoin, feed_loaded,
                   stock_loaded, kPc, signalQ, delivered>>
    /\ UNCHANGED <<feedVars, stockVars, imageVars, uiVars, rss_feeds>>
    /\ UNCHANGED screenVars

\* feeds.py:132, if category not in loaded_data
ThreadCheckCategory(t) ==
    /\ t \in Threads
    /\ tPc[t] = "chk"
    /\ tPc' = [tPc EXCEPT ![t] =
            IF loaded_data[rss_feeds[t].category].present THEN "app" ELSE "set"]
    /\ UNCHANGED <<loaded_feeds, tFeed, tTmp, tProgress, loaded_data, lPc, lJoin,
                   feed_loaded, stock_loaded, kPc, signalQ, delivered>>
    /\ UNCHANGED <<feedVars, stockVars, imageVars, uiVars, rss_feeds>>
    /\ UNCHANGED screenVars

\* feeds.py:133, loaded_data[category] = []
ThreadSetCategory(t) ==
    /\ t \in Threads
    /\ tPc[t] = "set"
    /\ loaded_data' = [loaded_data EXCEPT ![rss_feeds[t].category] =
            [present |-> TRUE, feeds |-> <<>>]]
    /\ tPc' = [tPc EXCEPT ![t] = "app"]
    /\ UNCHANGED <<loaded_feeds, tFeed, tTmp, tProgress, lPc, lJoin, feed_loaded,
                   stock_loaded, kPc, signalQ, delivered>>
    /\ UNCHANGED <<feedVars, stockVars, imageVars, uiVars, rss_feeds>>
    /\ UNCHANGED screenVars

\* feeds.py:136-140, the feed is appended when there is one
ThreadAppend(t) ==
    /\ t \in Threads
    /\ tPc[t] = "app"
    /\ loaded_data' = IF tFeed[t] = "feed"
                      THEN [loaded_data EXCEPT ![rss_feeds[t].category].feeds =
                                Append(@, rss_feeds[t].url)]
                      ELSE loaded_data
    /\ tPc' = [tPc EXCEPT ![t] = "read"]
    /\ UNCHANGED <<loaded_feeds, tFeed, tTmp, tProgress, lPc, lJoin, feed_loaded,
                   stock_loaded, kPc, signalQ, delivered>>
    /\ UNCHANGED <<feedVars, stockVars, imageVars, uiVars, rss_feeds>>
    /\ UNCHANGED screenVars

\* feeds.py:143, loaded_feeds[0] += 1 reads the counter ...
ThreadReadCounter(t) ==
    /\ t \in Threads
    /\ tPc[t] = "read"
    /\ tTmp' = [tTmp EXCEPT ![t] = loaded_feeds]
    /\ tPc' = [tPc EXCEPT ![t] = "write"]
    /\ UNCHANGED <<loaded_feeds, tFeed, tProgress, loaded_data, lPc, lJoin, feed_loaded,
                   stock_loaded, kPc, signalQ, delivered>>
    /\ UNCHANGED <<feedVars, stockVars, imageVars, uiVars, rss_feeds>>
    /\ UNCHANGED screenVars

\* ... and stores the sum
ThreadWriteCounter(t) ==
    /\ t \in Threads
    /\ tPc[t] = "write"
    /\ loaded_feeds' = tTmp[t] + 1
    /\ tPc' = [tPc EXCEPT ![t] = "compute"]
    /\ UNCHANGED <<tFeed, tTmp, tProgress, loaded_data, lPc, lJoin, feed_loaded,
                   stock_loaded, kPc, signalQ, delivered>>
    /\ UNCHANGED <<feedVars, stockVars, imageVars, uiVars, rss_feeds>>
    /\ UNCHANGED screenVars

\* feeds.py:144, progress is computed from the counter as it is now
ThreadComputeProgress(t) ==
    /\ t \in Threads
    /\ tPc[t] = "compute"
    /\ tProgress' = [tProgress EXCEPT ![t] = Progress(loaded_feeds)]
    /\ tPc' = [tPc EXCEPT ![t] = "emit"]
    /\ UNCHANGED <<loaded_feeds, tFeed, tTmp, loaded_data, lPc, lJoin, feed_loaded,
                   stock_loaded, kPc, signalQ, delivered>>
    /\ UNCHANGED <<feedVars, stockVars, imageVars, uiVars, rss_feeds>>
    /\ UNCHANGED screenVars

\* feeds.py:145 and loading_screen.py:148-155, update_progress(progress, ...)
\* emits progress_signal; the emission is queued for the GUI thread
ThreadEmitProgress(t) ==
    /\ t \in Threads
    /\ tPc[t] = "emit"
    /\ signalQ' = Append(signalQ, tProgress[t])
    /\ tPc' = [tPc EXCEPT ![t] = "done"]
    /\ UNCHANGED <<loaded_feeds, tFeed, tTmp, tProgress, loaded_data, lPc, lJoin,
                   feed_loaded, stock_loaded, kPc, delivered>>
    /\ UNCHANGED <<feedVars, stockVars, imageVars, uiVars, rss_feeds>>
    /\ UNCHANGED screenVars

\* feeds.py:164-167, thread.join(timeout=10) returns because the thread has
\* finished
LoaderJoinFinished ==
    /\ lPc = "join"
    /\ tPc[lJoin] = "done"
    /\ IF lJoin < Len(rss_feeds) THEN lJoin' = lJoin + 1 /\ lPc' = "join"
       ELSE lJoin' = lJoin /\ lPc' = "collect"
    /\ UNCHANGED <<loaded_feeds, tPc, tFeed, tTmp, tProgress, loaded_data, feed_loaded,
                   stock_loaded, kPc, signalQ, delivered>>
    /\ UNCHANGED <<feedVars, stockVars, imageVars, uiVars, rss_feeds>>
    /\ UNCHANGED screenVars

\* ... or because the ten seconds are over and the thread is still alive
LoaderJoinTimeout ==
    /\ lPc = "join"
    /\ tPc[lJoin] # "done"
    /\ IF lJoin < Len(rss_feeds) THEN lJoin' = lJoin + 1 /\ lPc' = "join"
       ELSE lJoin' = lJoin /\ lPc' = "collect"
    /\ UNCHANGED <<loaded_feeds, tPc, tFeed, tTmp, tProgress, loaded_data, feed_loaded,
                   stock_loaded, kPc, signalQ, delivered>>
    /\ UNCHANGED <<feedVars, stockVars, imageVars, uiVars, rss_feeds>>
    /\ UNCHANGED screenVars

\* feeds.py:170, the filter {k: v for k, v in loaded_data.items() if v}
\* begins to iterate over loaded_data
LoaderFilterBegin ==
    /\ lPc = "collect"
    /\ filterSize' = Cardinality({c \in Categories : loaded_data[c].present})
    /\ lPc' = "filter"
    /\ UNCHANGED <<loaded_feeds, tPc, tFeed, tTmp, tProgress, loaded_data, lJoin,
                   feed_loaded, stock_loaded, kPc, signalQ, delivered>>
    /\ UNCHANGED <<valid_categories, results, feeds_data, screen_stock_data, fade,
                   completed>>
    /\ UNCHANGED <<feedVars, stockVars, imageVars, uiVars, rss_feeds>>

\* feeds.py:170-178 and loading_screen.py:157-187.  A thread that outlived
\* its join may have added a category since the iteration began: the
\* iterator then raises RuntimeError (dictionary changed size during
\* iteration), which leaves load_feeds and load_data_and_complete.
\* Otherwise load_feeds returns the categories with a non-empty list,
\* on_feeds_loaded stores them (or the error entry) and sets feed_loaded,
\* check_if_complete finds stock_loaded still False, and the stock data
\* thread is created and started.  Either way on_data_loaded, the done
\* callback of the worker future, gets None or the exception from
\* future.result(), and its except clause logs the error
LoaderFeedsLoaded ==
    /\ lPc = "filter"
    /\ IF filterSize # Cardinality({c \in Categories : loaded_data[c].present})
       THEN /\ lPc' = "raised"
            /\ UNCHANGED <<valid_categories, results, feed_loaded, kPc>>
       ELSE /\ lPc' = "returned"
            /\ valid_categories' = {c \in Categories : loaded_data[c].feeds # <<>>}
            /\ results' = [results EXCEPT !.rss_feeds =
                   IF valid_categories' # {} THEN "loaded_data" ELSE "error"]
            /\ feed_loaded' = TRUE
            /\ kPc' = "running"
    /\ UNCHANGED <<loaded_feeds, tPc, tFeed, tTmp, tProgress, loaded_data, lJoin,
                   stock_loaded, signalQ, delivered>>
    /\ UNCHANGED <<filterSize, feeds_data, screen_stock_data, fade, completed>>
    /\ UNCHANGED <<feedVars, stockVars, imageVars, uiVars, rss_feeds>>

\* loading_screen.py:189-208, check_if_complete emits 100 once both flags
\* are set
check_if_complete(fl, sl, q) == IF fl /\ sl THEN Append(q, 100) ELSE q

\* what the stock data thread hands to its stock_data_signal: a ticker text
\* or an empty one
StockTexts == {"text", "empty"}

\* loading_screen.py:172-181 and 189-208, on_stock_data_received: the stock
\* data thread delivers its text and ends; check_if_complete, with both
\* flags set, emits 100 and stores the results in the screen
StockDataReceived(stock_text) ==
    /\ kPc = "running"
    /\ stock_loaded' = TRUE
    /\ results' = [results EXCEPT !.stock_data =
           IF stock_text = "text" THEN "stock_text"
           ELSE "No valid stock data available."]
    /\ signalQ' = check_if_complete(feed_loaded, TRUE, signalQ)
    /\ IF feed_loaded
       THEN /\ feeds_data' = results'.rss_feeds
            /\ screen_stock_data' = results'.stock_data
       ELSE UNCHANGED <<feeds_data, screen_stock_data>>
    /\ kPc' = "done"
    /\ UNCHANGED <<loaded_feeds, tPc, tFeed, tTmp, tProgress, loaded_data, lPc, lJoin,
                   feed_loaded, delivered>>
    /\ UNCHANGED <<filterSize, valid_categories, fade, completed>>
    /\ UNCHANGED <<feedVars, stockVars, imageVars, uiVars, rss_feeds>>

\* loading_screen.py:108-122 and 241-250, the GUI thread runs update_progress
\* for the oldest queued emission; a value of 100 starts a new fade-out
\* animation
DeliverProgress ==
    /\ signalQ # <<>>
    /\ fade # "waiting"
    /\ delivered' = Append(delivered, Head(signalQ))
    /\ signalQ' = Tail(signalQ)
    /\ fade' = IF Head(signalQ) = 100 THEN "running" ELSE fade
    /\ UNCHANGED <<loaded_feeds, tPc, tFeed, tTmp, tProgress, loaded_data, lPc, lJoin,
                   feed_loaded, stock_loaded, kPc>>
    /\ UNCHANGED <<filterSize, valid_categories, results, feeds_data,
                   screen_stock_data, completed>>
    /\ UNCHANGED <<feedVars, stockVars, imageVars, uiVars, rss_feeds>>

\* loading_screen.py:260-265, on_complete is called with the screen's data
on_complete(feed_done, stock_done) ==
    Append(completed, [rss_feeds |-> feeds_data, stock_data |-> screen_stock_data,
                       feed_loaded |-> feed_done, stock_loaded |-> stock_done])

\* loading_screen.py:249-265, the animation has finished and
\* close_loading_screen runs: with the stock data thread running it waits
\* for the thread, otherwise it calls on_complete
close_loading_screen ==
    /\ fade = "running"
    /\ IF kPc = "running"
       THEN fade' = "waiting" /\ UNCHANGED completed
       ELSE fade' = "none" /\ completed' = on_complete(feed_loaded, stock_loaded)
    /\ UNCHANGED <<loaded_feeds, tPc, tFeed, tTmp, tProgress, loaded_data, lPc, lJoin,
                   feed_loaded, stock_loaded, kPc, signalQ, delivered>>
    /\ UNCHANGED <<filterSize, valid_categories, results, feeds_data,
                   screen_stock_data>>
    /\ UNCHANGED <<feedVars, stockVars, imageVars, uiVars, rss_feeds>>

\* loading_screen.py:256-265, stock_data_thread.wait() returns once the
\* thread has ended, and on_complete is called
CloseAfterWait ==
    /\ fade = "waiting"
    /\ kPc = "done"
    /\ fade' = "none"
    /\ completed' = on_complete(feed_loaded, stock_loaded)
    /\ UNCHANGED <<loaded_feeds, tPc, tFeed, tTmp, tProgress, loaded_data, lPc, lJoin,
                   feed_loaded, stock_loaded, kPc, signalQ, delivered>>
    /\ UNCHANGED <<filterSize, valid_categories, results, feeds_data,
                   screen_stock_data>>
    /\ UNCHANGED <<feedVars, stockVars, imageVars, uiVars, rss_feeds>>

(***************************************************************************)
(*                              ROTATION                                   *)
(* update_feed of src/src/ui/feeds.py, once per category: the refresh      *)
(* fetch_feed_entries and the tick show_next_story, both working on the    *)
(* module's one feed_queue.  update_feed of ui/feed_manager.py and of      *)
(* ui/gui.py take from their feed_queue in the same way.                   *)
(***************************************************************************)
\* the feeds of each category, as update_feed receives them in rss_feeds
RotConfig == [general |-> <<"u1", "u2">>, tech |-> <<"u3">>]
RotCategories == DOMAIN RotConfig
RotUrls == {"u1", "u2", "u3"}
\* feed.entries of each feed when its fetch succeeds
RotEntries == [u1 |-> <<"a1", "a2", "a3", "a4">>, u2 |-> <<"b1">>, u3 |-> <<"c1", "c2">>]
NoStories == "No stories available"
Blank == "blank"

RotInit ==
    /\ feed_queue = <<>>
    /\ content_frame = [c \in RotCategories |-> Blank]
    /\ rRefreshes = 0
    /\ guiThread = "idle"
    /\ poolFetch = RotCategories

\* feeds.py:246-249, the refresh timer of category c fires: its callback is
\* fetch_feed_entries itself, which the GUI thread runs
RefreshTimer(c) ==
    /\ guiThread = "idle"
    /\ rRefreshes < MaxRefreshes
    /\ rRefreshes' = rRefreshes + 1
    /\ guiThread' = c
    /\ UNCHANGED <<feed_queue, content_frame, poolFetch>>
    /\ UNCHANGED <<feedVars, stockVars, imageVars, rss_feeds, loadVars, screenVars, ttsVars, poolVars, sentVars, otherVars>>

\* feeds.py:191, feed.entries[:3]
FirstThree(entries) == SubSeq(entries, 1, IF Len(entries) < 3 THEN Len(entries) ELSE 3)

\* feeds.py:185-194, the loop over the feeds of the category; got[u] is what
\* fetch_with_retry returned for u
RECURSIVE CollectEntries(_, _)
CollectEntries(urls, got) ==
    IF urls = <<>> THEN <<>>
    ELSE (IF got[Head(urls)] = "feed" THEN FirstThree(RotEntries[Head(urls)]) ELSE <<>>)
         \o CollectEntries(Tail(urls), got)

\* feeds.py:184-202, fetch_feed_entries, run for category c by a thread
\* of the executor (line 239) or by the GUI thread (RefreshTimer); the
\* fetches and their retry waits are over and the run ends
fetch_feed_entries(c, got) ==
    /\ \/ /\ guiThread = c
          /\ guiThread' = "idle"
          /\ UNCHANGED poolFetch
       \/ /\ c \in poolFetch
          /\ poolFetch' = poolFetch \ {c}
          /\ UNCHANGED guiThread
    /\ UNCHANGED rRefreshes
    /\ LET feed_entries == CollectEntries(RotConfig[c], got)
       IN  IF feed_entries = <<>>
           THEN /\ content_frame' = [content_frame EXCEPT ![c] = NoStories]
                /\ UNCHANGED feed_queue
           ELSE /\ feed_queue' = Append(feed_queue,
                                        [category |-> c, entries |-> feed_entries])
                /\ UNCHANGED content_frame
    /\ UNCHANGED <<feedVars, stockVars, imageVars, rss_feeds, loadVars, screenVars, ttsVars, poolVars, sentVars, otherVars>>

\* feeds.py:204-225, show_next_story of category c, a timer callback that
\* the GUI thread runs when it is not inside another callback.  The
\* tuple taken by get_nowait is not put back; entries.pop(0) / append(story)
\* rotate a list that nothing refers to once the tick returns
show_next_story(c) ==
    /\ guiThread = "idle"
    /\ IF feed_queue = <<>>
       THEN UNCHANGED <<feed_queue, content_frame>>
       ELSE /\ feed_queue' = Tail(feed_queue)
            /\ LET category == Head(feed_queue).category
                   entries == Head(feed_queue).entries
               IN  content_frame' = [content_frame EXCEPT ![c] =
                       IF category = c /\ entries # <<>> THEN Head(entries)
                       ELSE NoStories]
    /\ UNCHANGED <<rRefreshes, guiThread, poolFetch>>
    /\ UNCHANGED <<feedVars, stockVars, imageVars, rss_feeds, loadVars, screenVars, ttsVars, poolVars, sentVars, otherVars>>

(***************************************************************************)
(*                                 TTS                                     *)
(* process_tts_queue, the one worker started when api/tts_engine.py is     *)
(* loaded, the flag tts_busy set by the engine's utterance events, and the *)
(* producers: analyze_text (api/sentiment.py) and the story display        *)
(* (ui/story_display.py:55).  The pyttsx3 engine is the environment: an    *)
(* utterance started by runAndWait ends, or never ends, or runAndWait      *)
(* raises.                                                                 *)
(***************************************************************************)
TTS_TIMEOUT == 10            \* seconds, tts_engine.py:96
POLLS_PER_SECOND == 2        \* time.sleep(0.5), tts_engine.py:100
AnalyzeCallers == {"general", "tech"}
Texts == 1..(MaxTexts + 1)
\* the None that stop_tts_thread puts on the queue
TERMINATE == 0

TtsInit ==
    /\ engine \in {"ok", "None"}
    /\ tts_queue = <<>>
    /\ tts_busy = FALSE
    /\ ttsPc = (IF engine = "ok" THEN "get" ELSE "exited")
    /\ ttsElapsed = 0
    /\ engineQ = <<>>
    /\ narrating = {}
    /\ ttsStuck = {}
    /\ ttsFinished = {}
    /\ aPc = [c \in AnalyzeCallers |-> "idle"]
    /\ aText = [c \in AnalyzeCallers |-> 0]
    /\ ttsCalls = 0
    /\ aPut = [c \in AnalyzeCallers |-> FALSE]
    /\ ttsSaid = <<>>
    /\ ttsEnq = <<>>

\* tts_engine.py:61-68
tts_is_speaking == tts_busy

\* story_display.py:55, tts_queue.put(summary) when a story is displayed
StoryPut ==
    /\ ttsCalls < MaxTexts
    /\ ttsCalls' = ttsCalls + 1
    /\ tts_queue' = Append(tts_queue, ttsCalls + 1)
    /\ UNCHANGED <<tts_busy, ttsPc, ttsElapsed, engineQ, narrating, ttsStuck,
                   ttsFinished, aPc, aText>>
    /\ ttsEnq' = Append(ttsEnq, ttsCalls + 1)
    /\ UNCHANGED <<aPut, ttsSaid, engine>>
    /\ UNCHANGED <<feedVars, stockVars, imageVars, rss_feeds, loadVars, screenVars, rotVars, poolVars, sentVars, otherVars>>

\* sentiment.py:141-149, analyze_text has its result and tests the flag
AnalyzeCheck(c) ==
    /\ aPc[c] = "idle"
    /\ ttsCalls < MaxTexts
    /\ ttsCalls' = ttsCalls + 1
    /\ aText' = [aText EXCEPT ![c] = ttsCalls + 1]
    /\ aPc' = [aPc EXCEPT ![c] = IF tts_is_speaking THEN "wait" ELSE "put"]
    /\ UNCHANGED <<tts_queue, tts_busy, ttsPc, ttsElapsed, engineQ, narrating,
                   ttsStuck, ttsFinished>>
    /\ aPut' = [aPut EXCEPT ![c] = FALSE]
    /\ UNCHANGED <<ttsSaid, ttsEnq, engine>>
    /\ UNCHANGED <<feedVars, stockVars, imageVars, rss_feeds, loadVars, screenVars, rotVars, poolVars, sentVars, otherVars>>

\* sentiment.py:150 and tts_engine.py:108-125, add_to_tts_queue
AnalyzePut(c) ==
    /\ aPc[c] = "put"
    /\ tts_queue' = Append(tts_queue, aText[c])
    /\ aPc' = [aPc EXCEPT ![c] = "wait"]
    /\ UNCHANGED <<tts_busy, ttsPc, ttsElapsed, engineQ, narrating, ttsStuck,
                   ttsFinished, aText, ttsCalls>>
    /\ aPut' = [aPut EXCEPT ![c] = TRUE]
    /\ ttsEnq' = Append(ttsEnq, aText[c])
    /\ UNCHANGED <<ttsSaid, engine>>
    /\ UNCHANGED <<feedVars, stockVars, imageVars, rss_feeds, loadVars, screenVars, rotVars, poolVars, sentVars, otherVars>>

\* sentiment.py:157-168, the wait for the speech to end is over when the
\* flag is found clear; the UI is updated and the call returns
AnalyzeWaitEnd(c) ==
    /\ aPc[c] = "wait"
    /\ ~tts_is_speaking
    /\ aPc' = [aPc EXCEPT ![c] = "idle"]
    /\ UNCHANGED <<tts_queue, tts_busy, ttsPc, ttsElapsed, engineQ, narrating,
                   ttsStuck, ttsFinished, aText, ttsCalls>>
    /\ UNCHANGED <<aPut, ttsSaid, ttsEnq, engine>>
    /\ UNCHANGED <<feedVars, stockVars, imageVars, rss_feeds, loadVars, screenVars, rotVars, poolVars, sentVars, otherVars>>

\* tts_engine.py:137-144, stop_tts_thread puts the termination signal
StopTts ==
    /\ \A i \in DOMAIN ttsEnq : ttsEnq[i] # TERMINATE
    /\ tts_queue' = Append(tts_queue, TERMINATE)
    /\ ttsEnq' = Append(ttsEnq, TERMINATE)
    /\ UNCHANGED <<tts_busy, ttsPc, ttsElapsed, engineQ, narrating, ttsStuck,
                   ttsFinished, aPc, aText, ttsCalls, aPut, ttsSaid, engine>>
    /\ UNCHANGED <<feedVars, stockVars, imageVars, rss_feeds, loadVars, screenVars, rotVars, poolVars, sentVars, otherVars>>

\* the worker going on with the loop whatever it took from the queue
IsTermination_Never(text) == FALSE

\* tts_engine.py:86, if text is None
IsTermination(text) == text = TERMINATE

\* tts_engine.py:85-94, the worker takes the next item of the queue: the
\* termination signal ends the loop and the thread; a text is given to
\* engine.say and start_time is noted
WorkerGet ==
    /\ ttsPc = "get"
    /\ tts_queue # <<>>
    /\ tts_queue' = Tail(tts_queue)
    /\ IF IsTermination(Head(tts_queue))
       THEN /\ ttsPc' = "exited"
            /\ UNCHANGED <<engineQ, ttsElapsed, ttsSaid>>
       ELSE /\ engineQ' = Append(engineQ, Head(tts_queue))
            /\ ttsSaid' = Append(ttsSaid, Head(tts_queue))
            /\ ttsElapsed' = 0
            /\ ttsPc' = "poll"
    /\ UNCHANGED <<tts_busy, narrating, ttsStuck, ttsFinished, aPc, aText, ttsCalls>>
    /\ UNCHANGED <<aPut, ttsEnq, engine>>
    /\ UNCHANGED <<feedVars, stockVars, imageVars, rss_feeds, loadVars, screenVars, rotVars, poolVars, sentVars, otherVars>>

\* tts_engine.py:95, the flag is clear: the loop is left for runAndWait
WorkerPollFree ==
    /\ ttsPc = "poll"
    /\ ~tts_is_speaking
    /\ ttsPc' = "run"
    /\ UNCHANGED <<tts_queue, tts_busy, ttsElapsed, engineQ, narrating, ttsStuck,
                   ttsFinished, aPc, aText, ttsCalls>>
    /\ UNCHANGED <<aPut, ttsSaid, ttsEnq, engine>>
    /\ UNCHANGED <<feedVars, stockVars, imageVars, rss_feeds, loadVars, screenVars, rotVars, poolVars, sentVars, otherVars>>

\* tts_engine.py:96, time.time() - start_time > 10
TimedOut(polls) == polls > TTS_TIMEOUT * POLLS_PER_SECOND

\* tts_engine.py:95-100, the flag is set and the timeout is not reached:
\* the worker sleeps half a second
WorkerPollSleep ==
    /\ ttsPc = "poll"
    /\ tts_is_speaking
    /\ ~TimedOut(ttsElapsed)
    /\ ttsElapsed' = ttsElapsed + 1
    /\ UNCHANGED <<tts_queue, tts_busy, ttsPc, engineQ, narrating, ttsStuck,
                   ttsFinished, aPc, aText, ttsCalls>>
    /\ UNCHANGED <<aPut, ttsSaid, ttsEnq, engine>>
    /\ UNCHANGED <<feedVars, stockVars, imageVars, rss_feeds, loadVars, screenVars, rotVars, poolVars, sentVars, otherVars>>

\* what a successful engine.endLoop() leaves of the narrations in progress
ForceStop_Skipped(n) == n
ForceStop(n) == {}

\* tts_engine.py:96-99 and 104-106, the timeout is reached: engine.endLoop()
\* either stops the engine, and the worker leaves the loop for runAndWait,
\* or raises (pyttsx3: 'run loop not started'), and the except clause ends
\* the request
WorkerPollTimeout(raises) ==
    /\ ttsPc = "poll"
    /\ tts_is_speaking
    /\ TimedOut(ttsElapsed)
    /\ IF raises
       THEN ttsPc' = "get" /\ UNCHANGED <<narrating, ttsStuck>>
       ELSE /\ ttsPc' = "run"
            /\ narrating' = ForceStop(narrating)
            /\ ttsStuck' = ttsStuck \cap ForceStop(narrating)
    /\ UNCHANGED <<tts_queue, tts_busy, ttsElapsed, engineQ, ttsFinished, aPc,
                   aText, ttsCalls>>
    /\ UNCHANGED <<aPut, ttsSaid, ttsEnq, engine>>
    /\ UNCHANGED <<feedVars, stockVars, imageVars, rss_feeds, loadVars, screenVars, rotVars, poolVars, sentVars, otherVars>>

\* tts_engine.py:102 and 40-46, runAndWait: the engine starts the oldest
\* text it was given and on_start sets the flag; the worker is blocked in
\* runAndWait.  stuck: this narration never ends on its own
WorkerRun(stuck) ==
    /\ ttsPc = "run"
    /\ engineQ # <<>>
    /\ engineQ' = Tail(engineQ)
    /\ narrating' = narrating \cup {Head(engineQ)}
    /\ ttsStuck' = IF stuck THEN ttsStuck \cup {Head(engineQ)} ELSE ttsStuck
    /\ tts_busy' = TRUE
    /\ ttsPc' = "speaking"
    /\ UNCHANGED <<tts_queue, ttsElapsed, ttsFinished, aPc, aText, ttsCalls>>
    /\ UNCHANGED <<aPut, ttsSaid, ttsEnq, engine>>
    /\ UNCHANGED <<feedVars, stockVars, imageVars, rss_feeds, loadVars, screenVars, rotVars, poolVars, sentVars, otherVars>>

\* tts_engine.py:48-54 and 102-103, the narration of x ends, on_end clears
\* the flag; the engine goes on with the next text it was given, or
\* runAndWait returns and the request is done
EngineFinish(x) ==
    /\ ttsPc = "speaking"
    /\ x \in narrating \ ttsStuck
    /\ narrating' = narrating \ {x}
    /\ ttsFinished' = ttsFinished \cup {x}
    /\ tts_busy' = FALSE
    /\ ttsPc' = IF engineQ # <<>> THEN "run" ELSE "get"
    /\ UNCHANGED <<tts_queue, ttsElapsed, engineQ, ttsStuck, aPc, aText, ttsCalls>>
    /\ UNCHANGED <<aPut, ttsSaid, ttsEnq, engine>>
    /\ UNCHANGED <<feedVars, stockVars, imageVars, rss_feeds, loadVars, screenVars, rotVars, poolVars, sentVars, otherVars>>

\* tts_engine.py:104-106, runAndWait raises while a text is being spoken:
\* on_end has not run, the flag stays set, and the except clause ends the
\* request
EngineRaise ==
    /\ ttsPc = "speaking"
    /\ ttsPc' = "get"
    /\ UNCHANGED <<tts_queue, tts_busy, ttsElapsed, engineQ, narrating, ttsStuck,
                   ttsFinished, aPc, aText, ttsCalls>>
    /\ UNCHANGED <<aPut, ttsSaid, ttsEnq, engine>>
    /\ UNCHANGED <<feedVars, stockVars, imageVars, rss_feeds, loadVars, screenVars, rotVars, poolVars, sentVars, otherVars>>

(***************************************************************************)
(*                            WORKER POOL                                  *)
(* The executor of src/src/utils/threading.py, through which run_in_thread *)
(* runs the refresh fetch_feed_entries of a category (ui/feeds.py:239) and *)
(* the other background tasks.                                             *)
(***************************************************************************)
PoolInit ==
    /\ poolRunning = 0
    /\ poolWaiting = 0
    /\ poolSubmits = 0

\* utils/threading.py:25-57, run_in_thread submits a task: a worker takes it
\* at once when fewer than max_workers tasks are running, otherwise it waits
run_in_thread ==
    /\ poolSubmits < MaxSubmits
    /\ poolSubmits' = poolSubmits + 1
    /\ IF poolRunning < max_workers
       THEN poolRunning' = poolRunning + 1 /\ UNCHANGED poolWaiting
       ELSE poolWaiting' = poolWaiting + 1 /\ UNCHANGED poolRunning
    /\ UNCHANGED <<feedVars, stockVars, imageVars, rss_feeds, loadVars, screenVars,
                   rotVars, ttsVars, sentVars, otherVars>>

\* a task ends; its worker takes a waiting task if there is one
PoolTaskEnds ==
    /\ poolRunning > 0
    /\ IF poolWaiting > 0
       THEN poolWaiting' = poolWaiting - 1 /\ UNCHANGED poolRunning
       ELSE poolRunning' = poolRunning - 1 /\ UNCHANGED poolWaiting
    /\ UNCHANGED poolSubmits
    /\ UNCHANGED <<feedVars, stockVars, imageVars, rss_feeds, loadVars, screenVars,
                   rotVars, ttsVars, sentVars, otherVars>>

(***************************************************************************)
(*                             SENTIMENT                                   *)
(* analyze_text and list_models (api/sentiment.py) as the rotation tick    *)
(* calls them for the story it is about to display (ui/feeds.py:208-219).  *)
(* The Ollama backend is the environment.                                  *)
(***************************************************************************)
StoryIds == {"s1", "s2"}
\* the model the callers ask for, or none
ModelArgs == {"llama3:latest", "None"}
\* what GET /api/tags gives list_models: the names of the models, a status
\* other than 200 or a connection error (aiohttp.ClientError), or another
\* exception (a timeout, a body that is no JSON)
ModelLists == {<<"llama3:latest", "other_model">>, <<"other_model">>, <<>>}
TagsResponses ==
    [kind : {"ok"}, models : ModelLists]
        \cup [kind : {"client_error", "other_error"}, models : {<<>>}]
\* what POST /api/generate gives: a response with the analysis, or the same
\* failures
GenerateResponses == {"positive", "client_error", "other_error"}
BackendErrors == {"client_error", "other_error"}

SentInit ==
    /\ processed_story_ids = {}
    /\ nPc = "idle"
    /\ nStory = "none"
    /\ nModel = "None"
    /\ available_models = [kind |-> "none", models |-> <<>>]
    /\ nResponse = "none"
    /\ nUsed = "none"
    /\ nResult = "none"
    /\ label = "blank"
    /\ tag = [s \in StoryIds |-> "none"]
    /\ nReqs = [s \in StoryIds |-> 0]
    /\ nFailed = {}
    /\ nSpoken = <<>>
    /\ nCalls = 0

\* list_models letting the exception of the request through
list_models_Raises(response) ==
    IF response.kind \in BackendErrors
    THEN [kind |-> "raised", models |-> <<>>]
    ELSE [kind |-> "list", models |-> response.models]

\* sentiment.py:63-82, list_models: the names, or 'error' from either
\* except clause
list_models(response) ==
    IF response.kind \in BackendErrors
    THEN [kind |-> "error", models |-> <<>>]
    ELSE [kind |-> "list", models |-> response.models]

\* feeds.py:212-218, show_next_story: the sentiment the story is displayed
\* with is what analyze_text returned, or 'Unknown' when the call raised
Sentiment(returned) == IF returned = "raised" THEN "Unknown" ELSE returned

\* sentiment.py:124-126, the model of the request: the one asked for when it
\* is in the list, else the first of the list
ChooseModel(model, models) ==
    IF model = "None" \/ ~(\E i \in DOMAIN models : models[i] = model)
    THEN models[1] ELSE model

\* feeds.py:208-218 and sentiment.py:84-112, the tick calls analyze_text for
\* story s.  A call whose arguments do not bind to the signature
\* (text, root, label, story_id, model, ...) raises TypeError before the
\* body runs: this is the call of feeds.py:213, which passes the description
\* and the model only.  In a call that binds, a story in
\* processed_story_ids is skipped and displayed with what the call
\* returns; for any other the model list is asked for
AnalyzeTextCall(s, m, binds) ==
    /\ nPc = "idle"
    /\ nCalls < MaxSentCalls
    /\ nCalls' = nCalls + 1
    /\ nStory' = s
    /\ nModel' = m
    /\ nUsed' = "none"
    /\ nSpoken' = <<>>
    /\ available_models' = [kind |-> "none", models |-> <<>>]
    /\ nResponse' = "none"
    /\ IF ~binds
       THEN /\ nResult' = "raised"
            /\ tag' = [tag EXCEPT ![s] = Sentiment("raised")]
            /\ nFailed' = nFailed \cup {s}
            /\ UNCHANGED <<nPc, nReqs>>
       ELSE IF s \in processed_story_ids
       THEN /\ nResult' = "already_processed"
            /\ tag' = [tag EXCEPT ![s] = Sentiment("already_processed")]
            /\ UNCHANGED <<nPc, nReqs, nFailed>>
       ELSE /\ nPc' = "list"
            /\ nReqs' = [nReqs EXCEPT ![s] = @ + 1]
            /\ UNCHANGED <<nResult, tag, nFailed>>
    /\ UNCHANGED <<processed_story_ids, label>>
    /\ UNCHANGED <<feedVars, stockVars, imageVars, rss_feeds, loadVars, screenVars,
                   rotVars, ttsVars, poolVars, otherVars>>

\* sentiment.py:115-133, list_models has returned.  Without a list the call
\* reports the failure and returns 'error' (an exception of list_models
\* would leave analyze_text, line 115 is outside every try); with a list
\* the generate request is sent
ListModelsDone(response) ==
    /\ nPc = "list"
    /\ nResponse' = response.kind
    /\ available_models' = list_models(response)
    /\ IF available_models'.kind = "raised"
           THEN /\ nResult' = "raised"
                /\ tag' = [tag EXCEPT ![nStory] = Sentiment("raised")]
                /\ nFailed' = nFailed \cup {nStory}
                /\ nPc' = "idle"
                /\ UNCHANGED <<label, nUsed, nSpoken>>
           ELSE IF available_models'.kind = "error" \/ available_models'.models = <<>>
           THEN /\ nSpoken' = (IF available_models'.kind = "error"
                               THEN <<"models_error", "no_model_list">>
                               ELSE <<"no_model_list">>)
                /\ label' = "Failed to retrieve model list or no models available."
                /\ nResult' = "error"
                /\ tag' = [tag EXCEPT ![nStory] = Sentiment("error")]
                /\ nFailed' = nFailed \cup {nStory}
                /\ nPc' = "idle"
                /\ UNCHANGED nUsed
           ELSE /\ nUsed' = ChooseModel(nModel, available_models'.models)
                /\ nPc' = "generate"
                /\ UNCHANGED <<nResult, tag, nFailed, label, nSpoken>>
    /\ UNCHANGED <<processed_story_ids, nStory, nModel, nReqs, nCalls>>
    /\ UNCHANGED <<feedVars, stockVars, imageVars, rss_feeds, loadVars, screenVars,
                   rotVars, ttsVars, poolVars, otherVars>>

\* sentiment.py:135-188, the generate request has returned.  A failure is
\* caught by one of the except clauses: the message goes to the narration
\* queue and to the label and the call returns 'error'.  A result is
\* narrated when the engine is not speaking, and the call waits for the
\* speech to end
GenerateDone(response, speaking) ==
    /\ nPc = "generate"
    /\ nResponse' = (IF response \in BackendErrors THEN response ELSE "ok")
    /\ IF response \in BackendErrors
       THEN /\ nSpoken' = <<"generate_error">>
            /\ label' = (IF response = "client_error"
                         THEN "Error communicating with Ollama"
                         ELSE "Unexpected error during sentiment and bias analysis")
            /\ nResult' = "error"
            /\ tag' = [tag EXCEPT ![nStory] = Sentiment("error")]
            /\ nFailed' = nFailed \cup {nStory}
            /\ nPc' = "idle"
       ELSE /\ nSpoken' = (IF speaking THEN <<>> ELSE <<response>>)
            /\ nPc' = "wait"
            /\ nResult' = response
            /\ UNCHANGED <<label, tag, nFailed>>
    /\ UNCHANGED <<processed_story_ids, nStory, nModel, available_models, nUsed, nReqs,
                   nCalls>>
    /\ UNCHANGED <<feedVars, stockVars, imageVars, rss_feeds, loadVars, screenVars,
                   rotVars, ttsVars, poolVars, otherVars>>

\* sentiment.py:157-168 and feeds.py:218, the speech has ended: the label
\* gets the result, the story is marked and displayed with the result
AnalyzeTextDone ==
    /\ nPc = "wait"
    /\ label' = "Sentiment and bias analysis result"
    /\ processed_story_ids' = processed_story_ids \cup {nStory}
    /\ tag' = [tag EXCEPT ![nStory] = Sentiment(nResult)]
    /\ nPc' = "idle"
    /\ UNCHANGED <<nStory, nModel, available_models, nResponse, nUsed, nResult, nReqs,
                   nFailed, nSpoken, nCalls>>
    /\ UNCHANGED <<feedVars, stockVars, imageVars, rss_feeds, loadVars, screenVars,
                   rotVars, ttsVars, poolVars, otherVars>>

(***************************************************************************)
(*                               CLOSE                                     *)
(* StreamPulseApp.on_close (main.py) and shutdown_executor                 *)
(* (utils/threading.py).  The narration worker is a task of the executor:  *)
(* tts_engine.py:147 starts it with run_in_thread when the module is       *)
(* imported.                                                               *)
(***************************************************************************)
CloseInit == closing = "open"

Replies == {"Yes", "No"}

\* main.py:136-154, on_close: with the reply Yes it calls
\* shutdown_executor(), with any other reply the event is ignored
on_close(reply) ==
    /\ closing = "open"
    /\ closing' = (IF reply = "Yes" THEN "shutdown" ELSE closing)
    /\ UNCHANGED <<coreVars, statVars, tickVars, idxVars, ovVars>>

\* there is a task of the executor that has not ended: the narration worker,
\* or a task given to run_in_thread
TasksRunning == ttsPc # "exited" \/ poolRunning > 0 \/ poolWaiting > 0

\* threading.py:139, executor.shutdown(wait=True) returns when every task of
\* the executor has ended
shutdown_executor ==
    /\ closing = "shutdown"
    /\ ~TasksRunning
    /\ closing' = "closed"
    /\ UNCHANGED <<coreVars, statVars, tickVars, idxVars, ovVars>>

(***************************************************************************)
(*                            STATISTICS                                   *)
(* fetch_with_retries, fetch_us_debt and fetch_global_co2_emissions        *)
(* (src/src/ui/stats_widgets.py).  The two APIs are the environment.       *)
(***************************************************************************)
StatFetchers == {"fetch_us_debt", "fetch_global_co2_emissions"}
\* stats_widgets.py:40, the default of the parameter retries
retries == 3
\* what one requests.get with raise_for_status and json() gives: a body with
\* the figure, a body without the data, a body of another shape, a
\* requests.RequestException (connection error, timeout, HTTP error), or an
\* exception that is no RequestException (a body that is no JSON, with a
\* requests whose json() raises ValueError)
StatResponses == {"figure", "no_data", "malformed", "RequestException", "ValueError"}

StatInit ==
    /\ gPc = "idle"
    /\ gWhich = "none"
    /\ gAttempt = 0
    /\ gRequests = 0
    /\ gSleeps = 0
    /\ gLast = "none"
    /\ gResult = [f \in StatFetchers |-> "none"]
    /\ gCalls = 0

\* fetch_with_retries sleeping after every failed attempt
sleeps_after_Always(a) == TRUE

\* stats_widgets.py:61-65, fetch_with_retries sleeps after a failed attempt
\* that is not the last
sleeps_after(a) == a < retries - 1

\* stats_widgets.py:85-96 and 109-119: what the fetcher makes of what
\* fetch_with_retries returned.  A body of another shape raises inside the
\* try (KeyError, IndexError, ValueError of float) and is caught
Formatted(f, data) ==
    IF data = "figure" THEN "formatted" ELSE "Data Unavailable"

\* stats_widgets.py:75-83 and 105-107, a fetcher is called and
\* fetch_with_retries enters its loop
StatCall(f) ==
    /\ gPc = "idle"
    /\ gCalls < MaxStatCalls
    /\ gCalls' = gCalls + 1
    /\ gWhich' = f
    /\ gAttempt' = 0
    /\ gRequests' = 0
    /\ gSleeps' = 0
    /\ gLast' = "none"
    /\ gPc' = "request"
    /\ UNCHANGED gResult
    /\ UNCHANGED <<coreVars, closeVars, tickVars, idxVars, ovVars>>

\* stats_widgets.py:54-66, one attempt.  A body is returned to the fetcher;
\* a RequestException is caught, and followed by a sleep or, after the last
\* attempt, by the return of None; any other exception leaves
\* fetch_with_retries and is caught by the fetcher
StatRequest(response) ==
    /\ gPc = "request"
    /\ gRequests' = gRequests + 1
    /\ gLast' = response
    /\ IF response = "RequestException"
       THEN IF sleeps_after(gAttempt)
            THEN /\ gPc' = "sleep"
                 /\ UNCHANGED gResult
            ELSE IF gAttempt < retries - 1
            THEN /\ gPc' = "request"
                 /\ UNCHANGED gResult
            ELSE /\ gPc' = "idle"
                 /\ gResult' = [gResult EXCEPT ![gWhich] = Formatted(gWhich, "None")]
       ELSE /\ gPc' = "idle"
            /\ gResult' = [gResult EXCEPT ![gWhich] = Formatted(gWhich, response)]
    /\ gAttempt' = (IF response = "RequestException" /\ gAttempt < retries - 1 /\ ~sleeps_after(gAttempt)
                   THEN gAttempt + 1 ELSE gAttempt)
    /\ UNCHANGED <<gWhich, gSleeps, gCalls>>
    /\ UNCHANGED <<coreVars, closeVars, tickVars, idxVars, ovVars>>

\* stats_widgets.py:63 and 53, the sleep ends and the loop goes to the next
\* attempt, or returns None when there is none
StatSleep ==
    /\ gPc = "sleep"
    /\ gSleeps' = gSleeps + 1
    /\ IF gAttempt + 1 < retries
       THEN /\ gAttempt' = gAttempt + 1
            /\ gPc' = "request"
            /\ UNCHANGED gResult
       ELSE /\ gPc' = "idle"
            /\ gResult' = [gResult EXCEPT ![gWhich] = Formatted(gWhich, "None")]
            /\ UNCHANGED gAttempt
    /\ UNCHANGED <<gWhich, gRequests, gLast, gCalls>>
    /\ UNCHANGED <<coreVars, closeVars, tickVars, idxVars, ovVars>>

(***************************************************************************)
(*                           STOCK TICKER                                  *)
(* StockTicker.set_ticker_text, scroll_ticker and resizeEvent              *)
(* (src/src/ui/stock_ticker.py).  QFontMetrics is the environment: every   *)
(* character is one unit wide.                                             *)
(***************************************************************************)
\* the texts format_stock_data hands to set_ticker_text
TickerTexts == {<<"A">>, <<"A", "B">>}
\* the widths the widget takes
Widths == {10, 12, 24}
\* stock_ticker.py:70, the blanks set_ticker_text appends
Padding == [i \in 1..10 |-> " "]

\* stock_ticker.py:41-47, the ticker before update_ticker_text has run
TickInit ==
    /\ ticker_text = <<>>
    /\ scroll_position = 0
    /\ display_text = <<>>
    /\ tWidth = 10
    /\ tSteps = 0
    /\ tOrig = <<>>
    /\ tFirst = <<>>

\* stock_ticker.py:84-89, the text is appended to itself until it fills the
\* width
RECURSIVE FillWidth(_, _)
FillWidth(text, w) ==
    IF Len(text) < w THEN FillWidth(text \o <<" ">> \o text, w) ELSE text

\* the position wrapping one step late
Wrap_Late(position, text) == IF position > Len(text) THEN 0 ELSE position

\* stock_ticker.py:97-98, the position goes back to 0 at the end of the text
Wrap(position, text) == IF position >= Len(text) THEN 0 ELSE position

\* stock_ticker.py:93, ticker_text[position:] + ticker_text[:position]
Display(text, position) ==
    SubSeq(text, position + 1, Len(text)) \o SubSeq(text, 1, position)

\* stock_ticker.py:63-73, set_ticker_text
set_ticker_text(stock_text) ==
    /\ ticker_text' = stock_text \o Padding
    /\ scroll_position' = 0
    /\ tSteps' = 0
    /\ tOrig' = ticker_text'
    /\ tFirst' = <<>>
    /\ UNCHANGED <<display_text, tWidth>>
    /\ UNCHANGED <<coreVars, closeVars, statVars, idxVars, ovVars>>

\* stock_ticker.py:100-105, resizeEvent: the widget has another width
resizeEvent(w) ==
    /\ w # tWidth
    /\ tWidth' = w
    /\ UNCHANGED <<ticker_text, scroll_position, display_text, tSteps, tOrig, tFirst>>
    /\ UNCHANGED <<coreVars, closeVars, statVars, idxVars, ovVars>>

\* stock_ticker.py:75-98, scroll_ticker on a timeout of scroll_timer; with an
\* empty ticker_text it returns at once
scroll_ticker ==
    /\ ticker_text # <<>>
    /\ tSteps < MaxScrolls
    /\ ticker_text' = FillWidth(ticker_text, tWidth)
    /\ display_text' = Display(ticker_text', scroll_position + 1)
    /\ scroll_position' = Wrap(scroll_position + 1, ticker_text')
    /\ tSteps' = tSteps + 1
    /\ tFirst' = (IF tSteps = 0 THEN ticker_text' ELSE tFirst)
    /\ UNCHANGED <<tWidth, tOrig>>
    /\ UNCHANGED <<coreVars, closeVars, statVars, idxVars, ovVars>>

(***************************************************************************)
(*                      INDEX-BASED ROTATION                               *)
(* update_feed of src/src/gui.py: one list feed_entries and the index      *)
(* current_story_index into it, a tick and a refresh that both run as      *)
(* root.after callbacks of the one tkinter thread.                         *)
(***************************************************************************)
\* the feeds of the category, with the entries of RotEntries
IndexFeeds == <<"u1", "u2", "u3">>

\* gui.py:22-23
IndexInit ==
    /\ feedEntries = <<>>
    /\ current_story_index = 0
    /\ tickAfter = "scheduled"
    /\ xRefreshes = 0

\* gui.py:25-34, fetch_feed_entries replaces feed_entries and leaves
\* current_story_index as it is
IndexAfterRefresh(index, entries) == index

\* gui.py:25-34 and 45-51, fetch_feed_entries, at the start and from
\* refresh_feed: the list is built anew from the first three entries of
\* every feed that could be fetched
refresh_feed(got) ==
    /\ xRefreshes < MaxIndexRefreshes
    /\ xRefreshes' = xRefreshes + 1
    /\ feedEntries' = CollectEntries(IndexFeeds, got)
    /\ current_story_index' = IndexAfterRefresh(current_story_index, feedEntries')
    /\ UNCHANGED tickAfter
    /\ UNCHANGED <<coreVars, closeVars, statVars, tickVars, ovVars>>

\* gui.py:36-43, the tick show_next_story with a list that has entries:
\* feed_entries[current_story_index] raises IndexError when the index is
\* not one of the list, and the callback ends before root.after; otherwise
\* the index moves on and the tick is scheduled again
show_indexed_story ==
    /\ tickAfter = "scheduled"
    /\ feedEntries # <<>>
    /\ IF current_story_index >= Len(feedEntries)
       THEN /\ tickAfter' = "failed"
            /\ UNCHANGED current_story_index
       ELSE /\ current_story_index' = (current_story_index + 1) % Len(feedEntries)
            /\ UNCHANGED tickAfter
    /\ UNCHANGED <<feedEntries, xRefreshes>>
    /\ UNCHANGED <<coreVars, closeVars, statVars, tickVars, ovVars>>

(***************************************************************************)
(*                 OVERLAPPING CALLS OF analyze_text                       *)
(* analyze_text (api/sentiment.py) run as several coroutines of one event  *)
(* loop.  A coroutine runs without interruption from one await to the      *)
(* next: the awaits are list_models (line 115), the generate request       *)
(* (137-141) and the sleeps of the wait for the speech (158-159).          *)
(***************************************************************************)
Coroutines == {1, 2}

OverlapInit ==
    /\ oPc = [k \in Coroutines |-> "idle"]
    /\ oStory = [k \in Coroutines |-> "none"]
    /\ oRequests = [s \in StoryIds |-> 0]
    /\ oLate = [s \in StoryIds |-> 0]
    /\ oSucceeded = [s \in StoryIds |-> 0]
    /\ oNarrated = [s \in StoryIds |-> 0]
    /\ oCalls = 0

\* sentiment.py:98-115, a call: a story in processed_story_ids is skipped
\* and 'already_processed' returned, with no request; otherwise the
\* coroutine awaits list_models
OverlapCall(k, s) ==
    /\ oPc[k] = "idle"
    /\ oCalls < MaxOverlapCalls
    /\ oCalls' = oCalls + 1
    /\ oStory' = [oStory EXCEPT ![k] = s]
    /\ oPc' = [oPc EXCEPT ![k] = IF s \in processed_story_ids THEN "idle" ELSE "list"]
    /\ UNCHANGED <<oRequests, oLate, oSucceeded, oNarrated, processed_story_ids>>
    /\ UNCHANGED sharingVars

\* sentiment.py:115-141, list_models has returned: without a list the call
\* returns 'error'; with one the generate request is sent, with no further
\* look at processed_story_ids
OverlapListDone(k, response) ==
    /\ oPc[k] = "list"
    /\ LET models == list_models(response)
       IN  IF models.kind = "error" \/ models.models = <<>>
           THEN /\ oPc' = [oPc EXCEPT ![k] = "idle"]
                /\ UNCHANGED <<oRequests, oLate>>
           ELSE /\ oPc' = [oPc EXCEPT ![k] = "generate"]
                /\ oRequests' = [oRequests EXCEPT ![oStory[k]] = @ + 1]
                /\ oLate' = [oLate EXCEPT ![oStory[k]] =
                                 IF oStory[k] \in processed_story_ids THEN @ + 1 ELSE @]
    /\ UNCHANGED <<oStory, oSucceeded, oNarrated, oCalls, processed_story_ids>>
    /\ UNCHANGED sharingVars

\* sentiment.py:137-159 and 170-188, the generate request has returned: a
\* failure makes the call return 'error'; a result is put on the narration
\* queue when the engine is not speaking, and the coroutine waits for the
\* speech to end
OverlapGenerateDone(k, response, speaking) ==
    /\ oPc[k] = "generate"
    /\ IF response \in BackendErrors
       THEN /\ oPc' = [oPc EXCEPT ![k] = "idle"]
            /\ UNCHANGED <<oSucceeded, oNarrated>>
       ELSE /\ oPc' = [oPc EXCEPT ![k] = "wait"]
            /\ oSucceeded' = [oSucceeded EXCEPT ![oStory[k]] = @ + 1]
            /\ oNarrated' = [oNarrated EXCEPT ![oStory[k]] =
                                 IF speaking THEN @ ELSE @ + 1]
    /\ UNCHANGED <<oStory, oRequests, oLate, oCalls, processed_story_ids>>
    /\ UNCHANGED sharingVars

\* sentiment.py:158-168, the speech has ended: the label is updated, the
\* story is added to processed_story_ids and the result returned
OverlapDone(k) ==
    /\ oPc[k] = "wait"
    /\ processed_story_ids' = processed_story_ids \cup {oStory[k]}
    /\ oPc' = [oPc EXCEPT ![k] = "idle"]
    /\ UNCHANGED <<oStory, oRequests, oLate, oSucceeded, oNarrated, oCalls>>
    /\ UNCHANGED sharingVars

(***************************************************************************)
(*                          SPECIFICATIONS                                 *)
(***************************************************************************)
FeedNext ==
    \/ \E c \in FeedCallers, u \in FeedUrls : FeedCall(c, u)
    \/ \E c \in FeedCallers : FeedCheckDisabled(c)
    \/ \E c \in FeedCallers : FeedFetchBegin(c)
    \/ \E c \in FeedCallers, r \in Responses : FeedFetchEnd(c, r)
    \/ \E c \in FeedCallers : FeedRetry(c)
    \/ \E c \in FeedCallers : FeedReturn(c)

StockNext ==
    \/ TickerBuildStart
    \/ StockCall
    \/ StockAttempt
    \/ \E o \in PrimaryOutcomes : StockPrimary(o)
    \/ \E o \in YahooOutcomes : StockYahoo(o)
    \/ StockWait

ImageNext ==
    \/ \E c \in ImageCallers, u \in ImageUrls, d \in ImageDims : ImageCall(c, u, d)
    \/ \E c \in ImageCallers : ImageCheckCache(c)
    \/ \E c \in ImageCallers, r \in ImageResponses : ImageGet(c, r)
    \/ \E c \in ImageCallers : ImageSaveBegin(c)
    \/ \E c \in ImageCallers, mixed \in BOOLEAN : ImageSaveEnd(c, mixed)
    \/ \E c \in ImageCallers : ImageReturn(c)

LoadNext ==
    \/ LoaderStartThreads
    \/ \E t \in ThreadIds, f \in {"feed", "None"} : ThreadFetch(t, f)
    \/ \E t \in ThreadIds : ThreadCheckCategory(t)
    \/ \E t \in ThreadIds : ThreadSetCategory(t)
    \/ \E t \in ThreadIds : ThreadAppend(t)
    \/ \E t \in ThreadIds : ThreadReadCounter(t)
    \/ \E t \in ThreadIds : ThreadWriteCounter(t)
    \/ \E t \in ThreadIds : ThreadComputeProgress(t)
    \/ \E t \in ThreadIds : ThreadEmitProgress(t)
    \/ LoaderJoinFinished
    \/ LoaderJoinTimeout
    \/ LoaderNoConfig
    \/ LoaderFilterBegin
    \/ LoaderFeedsLoaded
    \/ \E stock_text \in StockTexts : StockDataReceived(stock_text)
    \/ DeliverProgress
    \/ close_loading_screen
    \/ CloseAfterWait

RotNext ==
    \/ \E c \in RotCategories : RefreshTimer(c)
    \/ \E c \in RotCategories, got \in [RotUrls -> {"feed", "None"}] :
           fetch_feed_entries(c, got)
    \/ \E c \in RotCategories : show_next_story(c)

WorkerNext ==
    \/ WorkerGet
    \/ WorkerPollFree
    \/ WorkerPollSleep
    \/ \E raises \in BOOLEAN : WorkerPollTimeout(raises)
    \/ \E stuck \in BOOLEAN : WorkerRun(stuck)

EngineNext == \E x \in Texts : EngineFinish(x)

ProducerNext ==
    \/ StoryPut
    \/ \E c \in AnalyzeCallers : AnalyzeCheck(c)
    \/ \E c \in AnalyzeCallers : AnalyzePut(c)
    \/ \E c \in AnalyzeCallers : AnalyzeWaitEnd(c)

TtsNext ==
    \/ WorkerGet
    \/ WorkerPollFree
    \/ WorkerPollSleep
    \/ \E raises \in BOOLEAN : WorkerPollTimeout(raises)
    \/ \E stuck \in BOOLEAN : WorkerRun(stuck)
    \/ \E x \in Texts : EngineFinish(x)
    \/ EngineRaise
    \/ StopTts
    \/ StoryPut
    \/ \E c \in AnalyzeCallers : AnalyzeCheck(c)
    \/ \E c \in AnalyzeCallers : AnalyzePut(c)
    \/ \E c \in AnalyzeCallers : AnalyzeWaitEnd(c)

SentNext ==
    \/ \E s \in StoryIds, m \in ModelArgs, binds \in BOOLEAN : AnalyzeTextCall(s, m, binds)
    \/ \E response \in TagsResponses : ListModelsDone(response)
    \/ \E response \in GenerateResponses, speaking \in BOOLEAN :
           GenerateDone(response, speaking)
    \/ AnalyzeTextDone

\* the fetch phase of a load next to the tasks of the executor; the later
\* steps of the fetch threads do not bear on how many fetch at once
PoolNext ==
    \/ LoaderStartThreads
    \/ \E t \in ThreadIds, f \in {"feed", "None"} : ThreadFetch(t, f)
    \/ run_in_thread
    \/ PoolTaskEnds

StatNext ==
    \/ \E f \in StatFetchers : StatCall(f)
    \/ \E response \in StatResponses : StatRequest(response)
    \/ StatSleep

TickNext ==
    \/ \E stock_text \in TickerTexts : set_ticker_text(stock_text)
    \/ \E w \in Widths : resizeEvent(w)
    \/ scroll_ticker

IndexNext ==
    \/ \E got \in [RotUrls -> {"feed", "None"}] : refresh_feed(got)
    \/ show_indexed_story

OverlapNext ==
    \/ \E k \in Coroutines, s \in StoryIds : OverlapCall(k, s)
    \/ \E k \in Coroutines, response \in TagsResponses : OverlapListDone(k, response)
    \/ \E k \in Coroutines, response \in GenerateResponses, speaking \in BOOLEAN :
           OverlapGenerateDone(k, response, speaking)
    \/ \E k \in Coroutines : OverlapDone(k)

CloseNext ==
    \/ TtsNext
    \/ \E reply \in Replies : on_close(reply)
    \/ shutdown_executor

\* the parts that a specification leaves alone start with a key and with a
\* readable default image
Init ==
    /\ FeedInit /\ StockInit /\ ImageInit /\ LoadInit /\ RotInit /\ TtsInit /\ PoolInit
    /\ SentInit /\ CloseInit /\ StatInit /\ TickInit /\ IndexInit /\ OverlapInit

InitFeed  == Init /\ API_KEY = TRUE /\ default_ok = TRUE /\ rss_feeds = <<>> /\ engine = "ok"
InitStock == Init /\ default_ok = TRUE /\ rss_feeds = <<>> /\ engine = "ok"
InitImage == Init /\ API_KEY = TRUE /\ rss_feeds = <<>> /\ engine = "ok"
InitLoad  == Init /\ API_KEY = TRUE /\ default_ok = TRUE /\ rss_feeds \in LoadConfigs /\ engine = "ok"
InitPool  == Init /\ API_KEY = TRUE /\ default_ok = TRUE /\ rss_feeds = PoolConfig /\ engine = "ok"
InitRotate == Init /\ API_KEY = TRUE /\ default_ok = TRUE /\ rss_feeds = <<>> /\ engine = "ok"
InitTts   == Init /\ API_KEY = TRUE /\ default_ok = TRUE /\ rss_feeds = <<>>
InitSent  == Init /\ API_KEY = TRUE /\ default_ok = TRUE /\ rss_feeds = <<>> /\ engine = "ok"

SpecFeed  == InitFeed /\ [][FeedNext]_vars
SpecStock == InitStock /\ [][StockNext]_vars
SpecImage == InitImage /\ [][ImageNext]_vars
SpecLoad  == InitLoad /\ [][LoadNext]_vars
\* every thread (the worker, the fetch threads, the stock data thread, the
\* GUI thread) keeps running, every fetch returns and every animation ends;
\* each step of the load moves a thread forward, so this is the same as
\* fairness of each of them
SpecLoadFair == SpecLoad /\ WF_vars(LoadNext)
SpecRotate == InitRotate /\ [][RotNext]_vars
SpecTts   == InitTts /\ [][TtsNext]_vars
SpecPool  == InitPool /\ [][PoolNext]_vars
SpecSent  == InitSent /\ [][SentNext]_vars
SpecStat  == InitSent /\ [][StatNext]_vars
SpecTick  == InitSent /\ [][TickNext]_vars
SpecIndex == InitSent /\ [][IndexNext]_vars
SpecOverlap == InitSent /\ [][OverlapNext]_vars
\* the worker thread, the engine and the event loop running analyze_text are
\* each scheduled again and again, and a narration takes a finite time unless
\* it is one that never ends on its own; nothing obliges runAndWait to raise
SpecTtsFair ==
    /\ SpecTts
    /\ WF_vars(WorkerNext)
    /\ WF_vars(EngineNext)
    /\ WF_vars(ProducerNext)
\* the same, with the user closing the window at any moment; shutdown returns
\* as soon as it can.  Nothing in src/ calls stop_tts_thread or shutdown_tts,
\* so no step of StopTts is ever obliged
SpecCloseFair ==
    /\ InitTts /\ [][CloseNext]_vars
    /\ WF_vars(WorkerNext)
    /\ WF_vars(EngineNext)
    /\ WF_vars(ProducerNext)
    /\ WF_vars(shutdown_executor)

(***************************************************************************)
(*                              PROPERTIES                                 *)
(***************************************************************************)

\* attempts of the current call of c that have ended in failure
FailedAttempts(c) ==
    fAttempts[c] - (IF fPc[c] = "fetching" \/ fResult[c] = "feed" THEN 1 ELSE 0)

C2_NoFetchOnceDisabled ==
    [][/\ DISABLED_FEEDS \subseteq DISABLED_FEEDS'
       /\ \A c \in FeedCallers :
              fAttempts'[c] = fAttempts[c] + 1 => fUrl[c] \notin DISABLED_FEEDS]_vars

\* C3, as claimed: the latch alpha_vantage_failed never goes back to false,
\* and a fetch_stock_price call that starts after a primary request has
\* failed issues no primary request.
C3_LatchedAfterFailure ==
    [][/\ alpha_vantage_failed => alpha_vantage_failed'
       /\ sFailedBefore' => sPrimary' = 0]_vars

\* the current fetch_stock_price call has ended (returned or raised)
StockCallOver == sPc \in {"call", "built", "raised"}

\* C4, as claimed: a fetch_stock_price call whose primary request failed
\* issues no second primary request, sleeps no backoff wait, and asks the
\* secondary provider for the same symbol before it ends.
C4_FallbackInSameCall ==
    sPrimaryFailed =>
        /\ sPrimary = 1
        /\ sWaits = 0
        /\ StockCallOver => sSymbol \in sYahoo

\* C5, as claimed: fetch_stock_price never raises, and a finished ticker
\* build has called it once for every symbol of STOCKS, in list order, and
\* holds one entry per symbol.
C5_TickerBuildCompletes ==
    /\ sPc # "raised"
    /\ sPc = "built" =>
           /\ sFetched = STOCKS
           /\ Len(stock_data) = Len(STOCKS)
           /\ \A i \in 1..Len(STOCKS) : stock_data[i].symbol = STOCKS[i]

\* C6, as claimed: a fetch_image call that starts after a call for the same
\* URL has stored the image returns the cached file and issues no request,
\* and a stored cache file is never removed or replaced.
C6_StoredEntryIsKept ==
    [][/\ \A c \in ImageCallers :
              iHitAtStart'[c] /\ iPc'[c] = "done" =>
                  iResult'[c].kind = "cached" /\ iNet'[c] = 0
       /\ \A k \in CacheKeys : cache[k].stored => cache'[k] = cache[k]]_vars

\* the step in which the fetch_image call of c fails
ImageFails(c) == iPc[c] = "get" /\ iPc'[c] = "done"

C8_NoOversizeStored == \A k \in CacheKeys : ~cache[k].oversize

\* C9, as claimed: a call that returns the cached file returns a completely
\* written one, and no cache file is left corrupt by overlapping writers.
C9_OnlyCompleteFilesSeen ==
    /\ \A c \in ImageCallers :
           iResult[c].kind = "cached" => iResult[c].content = "complete"
    /\ \A k \in CacheKeys : cache[k].st # "corrupt"

\* C10, as claimed: the progress values update_progress receives lie in
\* [0,100] and never decrease.
C10_ProgressMonotonic ==
    \A i \in 1..Len(delivered) :
        /\ 0 <= delivered[i] /\ delivered[i] <= 100
        /\ i > 1 => delivered[i - 1] <= delivered[i]

\* C11, as claimed: a progress value of 100 has been delivered to the
\* loading screen only if every source has its outcome, that is every feed
\* thread has finished and the stock data has arrived; the feeds alone never
\* yield 100.
C11_HundredOnlyWhenAllDone ==
    (\E i \in 1..Len(delivered) : delivered[i] = 100) =>
        /\ \A t \in Threads : tPc[t] = "done"
        /\ stock_loaded

\* the lists queued for category c, oldest first
QueuedFor(c) == SelectSeq(feed_queue, LAMBDA item : item.category = c)

\* a list with its head story moved to the tail
Cycled(entries) == Append(Tail(entries), Head(entries))

\* C12, as claimed: a tick of a category that holds stories shows the head
\* story of its list and leaves the category holding the same stories with
\* that story moved to the tail, so that N ticks show the N stories in
\* their order and bring back the first one.
C12_RotationCyclicLossless ==
    [][\A c \in RotCategories :
          (show_next_story(c) /\ QueuedFor(c) # <<>>) =>
              /\ content_frame'[c] = Head(QueuedFor(c)[1].entries)
              /\ QueuedFor(c)' = <<[category |-> c,
                                    entries |-> Cycled(QueuedFor(c)[1].entries)]>>
                                 \o Tail(QueuedFor(c))]_vars

\* C13, as claimed: a tick of category c leaves the lists queued for every
\* other category, and what every other category shows, as they were.
C13_TickLeavesOthersAlone ==
    [][\A c \in RotCategories : \A d \in RotCategories \ {c} :
          show_next_story(c) =>
              /\ QueuedFor(d)' = QueuedFor(d)
              /\ content_frame'[d] = content_frame[d]]_vars

\* C14: at every moment at most one narration is in progress, whatever the
\* producers enqueue: the worker has the engine start a text only when no
\* earlier narration is still going on (it has ended or was force-stopped).
C14_OneNarrationAtATime == Cardinality(narrating) <= 1

\* a narration is in progress while another text waits in the queue and an
\* earlier narration has ended
C14_Witness ==
    /\ narrating # {}
    /\ tts_queue # <<>>
    /\ ttsFinished # {}

\* C15, as claimed: a narration that never ends on its own is force-stopped
\* and the worker goes on; the busy flag clears again and every wait of
\* analyze_text for the speech to end terminates.
C15_StuckNarrationIsForceStopped ==
    /\ \A x \in Texts : (x \in narrating /\ x \in ttsStuck) ~> (x \notin narrating)
    /\ tts_busy ~> ~tts_busy
    /\ \A c \in AnalyzeCallers : (aPc[c] = "wait") ~> (aPc[c] = "idle")

\* C16, as claimed: whatever the configuration and the outcomes of the
\* fetches, a result is eventually handed to on_complete.
C16_EventuallyOnComplete == <>(completed # <<>>)

\* C17, as claimed: on_complete is called only when both feed loading and
\* stock loading have finished, with the feed data and the stock data those
\* loads produced.
C17_OnCompleteAfterBothLoads ==
    \A i \in 1..Len(completed) :
        /\ completed[i].feed_loaded /\ completed[i].stock_loaded
        /\ completed[i].rss_feeds = results.rss_feeds
        /\ completed[i].stock_data = results.stock_data

\* C18, as claimed: load_feeds never raises, and once it has returned with
\* every thread finished its result is the categories for which a feed was
\* gathered (that it returns after boundedly many steps is LoadFeedsEnds).
C18_LoadFeedsReturnsWithoutRaising ==
    /\ lPc # "raised"
    /\ (lPc = "returned" /\ \A t \in Threads : tPc[t] = "done") =>
           valid_categories \subseteq {c \in Categories : loaded_data[c].feeds # <<>>}

\* every feed configured for category c has been fetched and none gave a feed
AllFeedsFailed(c) ==
    /\ \E t \in Threads : rss_feeds[t].category = c
    /\ \A t \in Threads : rss_feeds[t].category = c =>
           tPc[t] \notin {"new", "fetch"} /\ tFeed[t] = "None"

\* C20, as claimed: when every feed of a category has failed the load does
\* not raise, and the result it returns has no stories for that category.
C20_FailedCategoryIsEmpty ==
    \A c \in Categories :
        AllFeedsFailed(c) =>
            /\ lPc # "raised"
            /\ lPc = "returned" => c \notin valid_categories

\* the source-fetch tasks executing now: the fetch threads of load_feeds that
\* are in fetch_with_retry and the tasks the executor is running
FetchesExecuting == Cardinality({t \in Threads : tPc[t] = "fetch"}) + poolRunning

\* C19, as claimed: at no time are more than max_workers source-fetch tasks
\* executing at once.
C19_AtMostFiveFetches == FetchesExecuting <= max_workers

\* the responses C21 is about: a status outside 2xx, or no entry
FailedResponses == {"non_2xx", "no_entries"}

\* C21: an attempt that ends with a non-2xx response or without entries
\* never makes the call return a feed: while retries < RETRY_LIMIT the call
\* goes on to the wait and the next attempt frame with its result still
\* open, and at the cap it disables the URL and returns None.  A call that
\* has returned a feed got it from an attempt with entries, and a call
\* returns None only with its URL disabled.
C21_FailedAttemptIsRetried ==
    [][\A c \in FeedCallers :
          /\ (fPc[c] = "fetching" /\ fPc'[c] # "fetching"
                  /\ fLast'[c] \in FailedResponses) =>
                 IF fRetries[c] < RETRY_LIMIT
                 THEN fPc'[c] = "sleep" /\ fResult'[c] = "pending"
                 ELSE fResult'[c] = "None" /\ fUrl[c] \in DISABLED_FEEDS'
          /\ fResult'[c] = "feed" => fLast'[c] = "feed"
          /\ fResult'[c] = "None" => fUrl'[c] \in DISABLED_FEEDS']_vars

\* C21, witness: one call returned a feed after a failed attempt, another
\* failed up to the cap, last with a response without entries, and
\* returned None
C21_Witness ==
    \E c, e \in FeedCallers :
        /\ fResult[c] = "feed" /\ fAttempts[c] > 1
        /\ fResult[e] = "None" /\ fAdded[e] /\ fLast[e] = "no_entries"
        /\ fAttempts[e] = RETRY_LIMIT + 1

\* the stories of a sequence of queued lists, oldest list first
RECURSIVE Stories(_)
Stories(items) ==
    IF items = <<>> THEN <<>> ELSE Head(items).entries \o Stories(Tail(items))

\* the stories of a sequence that come from feed u
FromFeed(stories, u) ==
    SelectSeq(stories, LAMBDA e : \E i \in DOMAIN RotEntries[u] : RotEntries[u][i] = e)

\* C22, as claimed: the stories queued for a category with k feeds hold, of
\* each of its feeds, nothing or the first three entries of the feed in
\* their order, and so at most 3k stories in all.
C22_ThreePerFeed ==
    \A c \in RotCategories :
        /\ \A i \in DOMAIN RotConfig[c] :
               FromFeed(Stories(QueuedFor(c)), RotConfig[c][i])
                   \in {<<>>, FirstThree(RotEntries[RotConfig[c][i]])}
        /\ Len(Stories(QueuedFor(c))) <= 3 * Len(RotConfig[c])

\* the waits of a call in which every attempt fails
BackoffSchedule == [k \in 1..RETRY_LIMIT |-> RETRY_BACKOFF ^ (k - 1)]

\* C27: the waits of one fetch_with_retry call are the first waits of the
\* schedule 1, 2, 4 (RETRY_BACKOFF^k before retry k = 0, 1, 2), one after
\* each failed attempt that is retried, each longer than the one before; a
\* call whose last attempt failed has slept exactly 1, 2, 4 and no wait
\* follows that attempt.
C27_BackoffSchedule ==
    \A c \in FeedCallers :
        /\ Len(fWaits[c]) = fRetries[c]
        /\ Len(fWaits[c]) <= RETRY_LIMIT
        /\ \A k \in DOMAIN fWaits[c] : fWaits[c][k] = BackoffSchedule[k]
        /\ \A k \in DOMAIN fWaits[c] : k > 1 => fWaits[c][k] > fWaits[c][k - 1]
        /\ fAdded[c] => fWaits[c] = BackoffSchedule /\ fPc[c] \in {"done", "idle"}

\* C27, witness: a call has failed four times, slept 1, 2 and 4 seconds
\* and returned
C27_Witness ==
    \E c \in FeedCallers :
        fAdded[c] /\ fWaits[c] = <<1, 2, 4>> /\ fPc[c] = "idle"

\* the content frame of a category shows a story
ShowsStory(c) == content_frame[c] \notin {Blank, NoStories}

\* C26, as claimed: a run of fetch_feed_entries for a category that shows a
\* story leaves the story shown as it is, whatever the fetches return.
C26_RefreshKeepsDisplay ==
    [][\A c \in RotCategories :
          ((\E got \in [RotUrls -> {"feed", "None"}] : fetch_feed_entries(c, got))
              /\ ShowsStory(c)) => content_frame'[c] = content_frame[c]]_vars

\* a fetch of some category is in progress
FetchInProgress == guiThread # "idle" \/ poolFetch # {}

\* C25, as claimed: no fetch is run by the GUI thread, which runs the timer
\* callbacks, and while a fetch is in progress the tick of every category
\* can fire.
C25_TicksNeverBlocked ==
    FetchInProgress =>
        /\ guiThread = "idle"
        /\ \A c \in RotCategories : ENABLED show_next_story(c)

\* C24, as claimed: every analyze_text call that has its result puts it on
\* tts_queue sooner or later, whether or not the engine was speaking when
\* the result came.
C24_ResultIsQueued ==
    \A c \in AnalyzeCallers : (aPc[c] # "idle") ~> aPut[c]

\* ttsEnq up to the termination signal
RECURSIVE BeforeStop(_)
BeforeStop(enq) ==
    IF enq = <<>> \/ Head(enq) = TERMINATE THEN <<>>
    ELSE <<Head(enq)>> \o BeforeStop(Tail(enq))

StopCalled == \E i \in DOMAIN ttsEnq : ttsEnq[i] = TERMINATE

IsPrefix(a, b) == Len(a) <= Len(b) /\ SubSeq(b, 1, Len(a)) = a

\* C30, as claimed: what the worker has processed is at every moment the
\* first part, in enqueue order, of what was enqueued before
\* stop_tts_thread; the worker has exited only after stop_tts_thread was
\* called, and then it has processed all of it.
C30_AsClaimed ==
    /\ IsPrefix(ttsSaid, BeforeStop(ttsEnq))
    /\ ttsPc = "exited" => StopCalled /\ ttsSaid = BeforeStop(ttsEnq)

\* C30, amended: the same for a worker whose engine was initialised; with
\* no engine the worker has exited at once and processes nothing.
C30_DrainedBeforeExit ==
    /\ IsPrefix(ttsSaid, BeforeStop(ttsEnq))
    /\ engine = "ok" /\ ttsPc = "exited" => StopCalled /\ ttsSaid = BeforeStop(ttsEnq)
    /\ engine = "None" => ttsPc = "exited" /\ ttsSaid = <<>>

\* C30, witness: the worker has exited after two texts enqueued before the
\* signal, and a text enqueued after the signal is still in the queue
C30_Witness ==
    /\ engine = "ok" /\ ttsPc = "exited"
    /\ Len(ttsSaid) = 2
    /\ tts_queue # <<>>

\* a step in which the sentiment call for story s fails: it raises, or it
\* returns 'error'
CallFails(s) ==
    /\ nStory' = s
    /\ nPc' = "idle"
    /\ nResult' \in {"error", "raised"}
    /\ nPc # "idle" \/ nCalls' > nCalls

ModelMissing(model, list) ==
    /\ model # "None"
    /\ list.kind = "list"
    /\ list.models # <<>>
    /\ \A i \in DOMAIN list.models : list.models[i] # model

\* C28: when the model named in the call is not in the list of available
\* models, analyze_text returns 'model_error', reports the missing model to
\* the label, and sends no generate request.
C28_MissingModelIsAnError ==
    [][(nPc = "list" /\ ModelMissing(nModel, available_models'))
          => /\ nResult' = "model_error"
             /\ label' = "Model not found"
             /\ nPc' = "idle"
             /\ nUsed' = "none"]_vars

ErrorLabels ==
    {"Failed to retrieve model list or no models available.",
     "Error communicating with Ollama",
     "Unexpected error during sentiment and bias analysis"}

\* C29: on a backend failure neither list_models nor analyze_text raises:
\* list_models returns 'error', and analyze_text returns 'error', writes an
\* error message to the label and leaves the story out of
\* processed_story_ids.
C29_BackendFailureReturnsError ==
    nResponse \in BackendErrors
        => /\ nUsed = "none" => available_models.kind = "error"
           /\ nPc = "idle"
           /\ nResult = "error"
           /\ label \in ErrorLabels
           /\ nStory \notin processed_story_ids

\* the request for the model list has failed in a call made after another
\* story was analysed and marked
C29_Witness ==
    /\ nResponse = "client_error"
    /\ available_models.kind = "error"
    /\ nResult = "error"
    /\ processed_story_ids # {}
    /\ nStory \notin processed_story_ids


\* C31: closing the application terminates: once the user has confirmed,
\* shutdown_executor(wait=True) returns, every task of the executor having
\* ended, the narration worker among them.
C31_CloseTerminates == (closing = "shutdown") ~> (closing = "closed")


\* the call has ended after a request that failed
StatFailed == gPc = "idle" /\ gLast \in {"RequestException", "ValueError"}

\* C32: the two fetchers never raise; when the requests fail they return
\* "Data Unavailable" after at most `retries` requests, with a sleep between
\* two attempts and none after the last.
C32_StatsFailSoft ==
    /\ \A f \in StatFetchers : gResult[f] # "raised"
    /\ gRequests <= retries
    /\ gSleeps <= gRequests
    /\ StatFailed => /\ gResult[gWhich] = "Data Unavailable"
                     /\ gSleeps = gRequests - 1

\* every attempt of a call of fetch_us_debt has failed with a
\* RequestException
C32_Witness ==
    /\ gPc = "idle"
    /\ gWhich = "fetch_us_debt"
    /\ gLast = "RequestException"
    /\ gRequests = retries
    /\ gSleeps = retries - 1
    /\ gResult["fetch_us_debt"] = "Data Unavailable"


\* text rotated left by k characters
RotateLeft(text, k) ==
    [i \in 1..Len(text) |-> text[((i - 1 + k) % Len(text)) + 1]]

\* a step of scroll_ticker
ScrollStep == tSteps' = tSteps + 1

C34_OnCompleteOnce == Len(completed) <= 1


\* every feed thread of the load has finished
AllThreadsDone == rss_feeds # <<>> /\ \A t \in Threads : tPc[t] = "done"

\* the progress values emitted so far, in the order of their emission
Emitted == delivered \o signalQ

\* C35: no completion of a feed thread is lost: once all threads have
\* finished, loaded_feeds[0] equals total_feeds and the last feed progress
\* value emitted is 100.  (Stated for the time before check_if_complete
\* emits its own 100.)
C35_NoCompletionLost ==
    (AllThreadsDone /\ ~(feed_loaded /\ stock_loaded))
        => /\ loaded_feeds = total_feeds
           /\ Emitted # <<>>
           /\ Emitted[Len(Emitted)] = 100


\* how often url is in the list gathered for category c
Occurrences(url, c) ==
    Cardinality({i \in DOMAIN loaded_data[c].feeds : loaded_data[c].feeds[i] = url})

\* C36: aggregation is lossless under concurrency: once the threads have
\* finished, every feed whose fetch succeeded is exactly once in the list
\* of its own category and in the list of no other category.
C36_AggregationLossless ==
    AllThreadsDone =>
        \A t \in Threads :
            tFeed[t] = "feed" =>
                \A c \in Categories :
                    Occurrences(rss_feeds[t].url, c)
                        = (IF c = rss_feeds[t].category THEN 1 ELSE 0)


\* a step appends to the list load_feeds has returned for category c.  The
\* returned dict holds the list objects of loaded_data; a list that is
\* empty after the return has been bound anew by feeds.py:133 and is not the
\* one that was returned
AppendsToReturned(c) ==
    /\ c \in valid_categories
    /\ loaded_data[c].feeds # <<>>
    /\ Len(loaded_data'[c].feeds) > Len(loaded_data[c].feeds)

\* a feed thread emits a progress value
FeedThreadEmits == \E t \in Threads : tPc[t] = "emit" /\ tPc'[t] = "done"

\* C37: what load_feeds returned does not change after the return: a fetch
\* thread that outlived its join adds nothing to the returned categories,
\* and emits no progress once the load has been reported complete.
C37_ResultIsFrozen ==
    [][/\ lPc = "returned" => \A c \in Categories : ~AppendsToReturned(c)
       /\ (feed_loaded /\ stock_loaded) => ~FeedThreadEmits]_vars


\* C38: in the index-based rotation current_story_index is a valid index of
\* feed_entries whenever feed_entries is non-empty, also after a refresh has
\* replaced the list by a shorter one; the tick never fails and always
\* schedules itself again.
C38_IndexAlwaysValid ==
    /\ tickAfter = "scheduled"
    /\ feedEntries # <<>> => current_story_index \in 0..(Len(feedEntries) - 1)


\* C39: for every story_id at most one call of analyze_text gets the story
\* analysed and narrates the result, also when calls for the story overlap,
\* and once the story is in processed_story_ids no call sends a generate
\* request for it.
C39_AnalysedOnce ==
    \A s \in StoryIds :
        /\ oSucceeded[s] <= 1
        /\ oNarrated[s] <= 1
        /\ oLate[s] = 0

====
